---- MODULE Spec2Model ----
(***************************************************************************)
(* A model of the VexFlow layout core: the Formatter (tick and modifier    *)
(* contexts, minimum width, justification) and the column layout of        *)
(* accidentals.                                                            *)
(*                                                                         *)
(* Pixel quantities are JavaScript numbers in the source.  The model keeps *)
(* them in fixed point, PxScale units to a pixel, and rounds every product *)
(* with a non-integer factor down to a unit.  Tick values are exact        *)
(* Fractions, as in the source.                                            *)
(***************************************************************************)
EXTENDS Integers, Sequences, FiniteSets, TLC

(***************************************************************************)
(* Bounds of the model.                                                    *)
(***************************************************************************)
\* Longest voice list handed to one call.
MaxVoices == 2
\* Most calls made on one Formatter.
MaxCalls == 3
\* The most staves, the most begin and end modifiers added to a stave, and
\* the most lines a stave is given.
MaxStaves == 2
MaxModifiers == 3
MaxNumLines == 3
\* Largest maxIterations option a Formatter is constructed with.
MaxIterationsOption == 2
\* Units to a pixel.
PxScale == 20
\* The most accidentals of one chord, and its highest line, in half lines.
MaxAccidentals == 7
MaxLine == 8
\* The most notes of one voice given to applyAccidentals.
MaxNotes == 2

(***************************************************************************)
(* Small helpers.                                                          *)
(***************************************************************************)
Max(a, b) == IF a >= b THEN a ELSE b
Min(a, b) == IF a <= b THEN a ELSE b
Abs(a) == IF a < 0 THEN -a ELSE a

RECURSIVE SeqsUpTo(_, _)
SeqsUpTo(S, n) ==
  IF n = 0 THEN {<<>>}
  ELSE LET shorter == SeqsUpTo(S, n - 1)
       IN  shorter \cup {Append(s, x) : s \in {t \in shorter : Len(t) = n - 1}, x \in S}

Range(s) == {s[i] : i \in DOMAIN s}

(***************************************************************************)
(* Fraction (fraction.ts): exact rationals, numerator over denominator.    *)
(***************************************************************************)
RECURSIVE GCD(_, _)
GCD(a, b) == IF b = 0 THEN a ELSE GCD(b, a % b)

LCM(a, b) == (a * b) \div GCD(a, b)

Fraction(n, d) == [numerator |-> n, denominator |-> d]

\* add() brings both operands to the least common denominator and does not
\* simplify the sum.
FractionAdd(f, g) ==
  LET lcm == LCM(f.denominator, g.denominator)
  IN  Fraction(f.numerator * (lcm \div f.denominator)
                 + g.numerator * (lcm \div g.denominator), lcm)

FractionEquals(f, g) == f.numerator * g.denominator = g.numerator * f.denominator

FractionGreater(f, g) == f.numerator * g.denominator > g.numerator * f.denominator

(***************************************************************************)
(* The voices the calls draw their arguments from.  Ticks are counted in   *)
(* measures: a voice whose tickables add up to 1/1 fills one measure.      *)
(* Every tickable carries the pixel widths its preFormat would compute.    *)
(***************************************************************************)
Tickable(n, d, notePx, modLeftPx, modRightPx) ==
  [ticks |-> Fraction(n, d), notePx |-> notePx,
   modLeftPx |-> modLeftPx, modRightPx |-> modRightPx]

VoiceCatalogue == <<
  \* 1: two halves, complete.
  [totalTicks |-> Fraction(1, 1), mode |-> "STRICT",
   tickables |-> <<Tickable(1, 2, 10, 0, 0), Tickable(1, 2, 10, 0, 0)>>],
  \* 2: a third and two thirds, complete; other rhythm, other denominators.
  [totalTicks |-> Fraction(1, 1), mode |-> "STRICT",
   tickables |-> <<Tickable(1, 3, 20, 0, 0), Tickable(2, 3, 10, 4, 0)>>],
  \* 3: STRICT and incomplete.
  [totalTicks |-> Fraction(1, 1), mode |-> "STRICT",
   tickables |-> <<Tickable(1, 2, 10, 0, 0)>>],
  \* 4: SOFT and incomplete.
  [totalTicks |-> Fraction(1, 1), mode |-> "SOFT",
   tickables |-> <<Tickable(1, 6, 10, 0, 0), Tickable(1, 3, 12, 0, 2)>>],
  \* 5: another declared total, complete.
  [totalTicks |-> Fraction(2, 1), mode |-> "STRICT",
   tickables |-> <<Tickable(1, 1, 10, 0, 0), Tickable(1, 1, 10, 0, 0)>>],
  \* 6: SOFT with more ticks than declared.
  [totalTicks |-> Fraction(1, 1), mode |-> "SOFT",
   tickables |-> <<Tickable(1, 2, 10, 0, 0), Tickable(1, 2, 10, 0, 0),
                   Tickable(1, 2, 14, 0, 0)>>],
  \* 7: a wide short note before a long one, complete.
  [totalTicks |-> Fraction(1, 1), mode |-> "STRICT",
   tickables |-> <<Tickable(1, 6, 40, 0, 0), Tickable(1, 2, 10, 0, 0),
                   Tickable(1, 3, 10, 0, 0)>>]
>>

VoiceIds == DOMAIN VoiceCatalogue

VoiceLists == SeqsUpTo(VoiceIds, MaxVoices)

(***************************************************************************)
(* Voice (voice.ts).                                                       *)
(***************************************************************************)
getTotalTicks(v) == VoiceCatalogue[v].totalTicks

getMode(v) == VoiceCatalogue[v].mode

getTickables(v) == VoiceCatalogue[v].tickables

\* ticksUsed: the running sum addTickable keeps.
RECURSIVE TicksUpTo(_, _)
TicksUpTo(v, k) ==
  IF k = 0 THEN Fraction(0, 1)
  ELSE FractionAdd(TicksUpTo(v, k - 1), getTickables(v)[k].ticks)

getTicksUsed(v) == TicksUpTo(v, Len(getTickables(v)))

\* isComplete(): only STRICT and FULL voices can be incomplete.
isComplete(v) ==
  IF getMode(v) \in {"STRICT", "FULL"}
  THEN FractionEquals(getTicksUsed(v), getTotalTicks(v))
  ELSE TRUE

\* The voice's own multiplier is the denominator of its ticksUsed.
VoiceResolutionMultiplier(v) == getTicksUsed(v).denominator

(***************************************************************************)
(* State of one Formatter, of the voices it is given, and of the call in   *)
(* progress.                                                               *)
(***************************************************************************)
VARIABLES
  hasMinTotalWidth,   \* this.hasMinTotalWidth
  minTotalWidth,      \* this.minTotalWidth, in units
  tickContexts,       \* this.tickContexts (AlignmentTickContexts)
  modifierContexts,   \* this.modifierContexts (AlignmentModifierContexts[])
  voices,             \* this.voices
  justifyWidth,       \* this.justifyWidth, in units
  maxIterations,      \* this.formatterOptions.maxIterations
  voiceStave,         \* the stave of each voice's tickables ("none": no stave)
  call,               \* the most recent call: its name and arguments
  result,             \* how that call ended: the error raised, the value returned
  frame,              \* the locals of a preFormat call that is in its loop
  calls,              \* the number of calls made on the Formatter
  history,            \* what has happened to the Formatter so far
  evaluation,         \* what evaluate() leaves: totalCost, lossHistory,
                      \* durationStats, contextGaps and the space (used,
                      \* mean, deviation) of the formatter metrics of the
                      \* tickables; the totalShift tune() leaves; and
                      \* accounted, the tickables whose squared deviation
                      \* the most recent full run of evaluate() summed
  attached            \* for each voice, the tick contexts its tickables were
                      \* last added to (tickable.tickContext)

VARIABLES
  accidentals,        \* the accidentals of a modifier context: line, type,
                      \* left displacement of the note heads, xShift
  lineMetrics,        \* staveLineAccidentalLayoutMetrics of Accidental.format
  accidentalsFormatted,          \* Accidental.format has run on the accidentals
  state,              \* the ModifierContextState: leftShift, and what it
                      \* was before Accidental.format
  score               \* the voices applyAccidentals is given: their notes
                      \* with keys and modifiers, and the keys in the order
                      \* the most recent call has gone through them

accVars == <<accidentals, lineMetrics, accidentalsFormatted, state, score>>

VARIABLES
  allStaves,          \* the Stave objects made so far, in the order made
  staveCall           \* the most recent call on a stave, or on all of them

staveVars == <<allStaves, staveCall>>

fmtVars == <<hasMinTotalWidth, minTotalWidth, tickContexts, modifierContexts,
             voices, justifyWidth, maxIterations, voiceStave, call, result, frame,
             calls, history, evaluation, attached>>

(***************************************************************************)
(* Results of calls.                                                       *)
(***************************************************************************)
Raised(name) == [err |-> name, kind |-> "none", value |-> 0]

Returned(kind, value) == [err |-> "none", kind |-> kind, value |-> value]

Call(name, vs, width, stave) ==
  [op |-> name, voices |-> vs, justifyWidth |-> width, stave |-> stave]

\* A call starts: it is the most recent one, and one more has been made.
Begin(name, vs, width, stave) ==
  /\ call' = Call(name, vs, width, stave)
  /\ calls' = calls + 1
  /\ UNCHANGED <<accVars, staveVars>>

(***************************************************************************)
(* Formatter.getResolutionMultiplier (static).                             *)
(***************************************************************************)
\* The reduce with the mode of the voice left out of the test for an
\* incomplete voice.
RECURSIVE ReduceResolutionMultiplierAnyMode(_, _, _)
ReduceResolutionMultiplierAnyMode(vs, k, acc) ==
  IF k > Len(vs) THEN Returned("number", acc)
  ELSE IF ~FractionEquals(getTotalTicks(vs[k]), getTotalTicks(vs[1]))
       THEN Raised("TickMismatch")
  ELSE IF ~FractionEquals(getTicksUsed(vs[k]), getTotalTicks(vs[k]))
       THEN Raised("IncompleteVoice")
  ELSE ReduceResolutionMultiplierAnyMode(vs, k + 1,
         Max(acc, LCM(acc, VoiceResolutionMultiplier(vs[k]))))

\* The reduce with the comparison of the declared totals left out.
RECURSIVE ReduceResolutionMultiplierAnyTotal(_, _, _)
ReduceResolutionMultiplierAnyTotal(vs, k, acc) ==
  IF k > Len(vs) THEN Returned("number", acc)
  ELSE IF getMode(vs[k]) = "STRICT" /\ ~isComplete(vs[k])
       THEN Raised("IncompleteVoice")
  ELSE ReduceResolutionMultiplierAnyTotal(vs, k + 1,
         Max(acc, LCM(acc, VoiceResolutionMultiplier(vs[k]))))

\* The reduce over the voices, from voice k on, with the accumulator acc.
RECURSIVE ReduceResolutionMultiplier(_, _, _)
ReduceResolutionMultiplier(vs, k, acc) ==
  IF k > Len(vs) THEN Returned("number", acc)
  ELSE IF ~FractionEquals(getTotalTicks(vs[k]), getTotalTicks(vs[1]))
       THEN Raised("TickMismatch")
  ELSE IF getMode(vs[k]) = "STRICT" /\ ~isComplete(vs[k])
       THEN Raised("IncompleteVoice")
  ELSE ReduceResolutionMultiplier(vs, k + 1,
         Max(acc, LCM(acc, VoiceResolutionMultiplier(vs[k]))))

getResolutionMultiplier(vs) ==
  IF Len(vs) = 0 THEN Raised("BadArgument")
  ELSE ReduceResolutionMultiplier(vs, 1, 1)

(***************************************************************************)
(* The walk createTickContexts and createModifierContexts share: every     *)
(* tickable of every voice, in order, with the integer tick it starts at.  *)
(***************************************************************************)
\* ticksUsedAt with the sum started at 0/1 where the method starts it at
\* 0/multiplier: the numerators of different voices are on different scales.
RECURSIVE ticksUsedAtFromOne(_, _, _)
ticksUsedAtFromOne(v, k, multiplier) ==
  IF k = 1 THEN Fraction(0, 1)
  ELSE FractionAdd(ticksUsedAtFromOne(v, k - 1, multiplier), getTickables(v)[k - 1].ticks)

\* ticksUsed before tickable k of voice v: new Fraction(0, multiplier), then
\* ticksUsed.add(tickable.getTicks()) for each earlier tickable.
RECURSIVE ticksUsedAt(_, _, _)
ticksUsedAt(v, k, multiplier) ==
  IF k = 1 THEN Fraction(0, multiplier)
  ELSE FractionAdd(ticksUsedAt(v, k - 1, multiplier), getTickables(v)[k - 1].ticks)

integerTicks(v, k, multiplier) == ticksUsedAt(v, k, multiplier).numerator

\* The tickables of voices vi.. of the list, flattened in visiting order.
RECURSIVE Walk(_, _, _)
Walk(vs, vi, multiplier) ==
  IF vi > Len(vs) THEN <<>>
  ELSE [k \in 1..Len(getTickables(vs[vi])) |->
          [voiceIndex |-> vi, voice |-> vs[vi], index |-> k,
           tick |-> integerTicks(vs[vi], k, multiplier)]]
       \o Walk(vs, vi + 1, multiplier)

(***************************************************************************)
(* Formatter.createTickContexts.                                           *)
(***************************************************************************)
NewTickContext(tick) ==
  [tickID |-> tick, tickables |-> <<>>, tickablesByVoice |-> <<>>, x |-> 0,
   preFormatted |-> FALSE, postFormatted |-> FALSE,
   notePx |-> 0, totalLeftPx |-> 0, totalRightPx |-> 0, width |-> 0,
   tContexts |-> <<>>, freedom |-> [left |-> 0, right |-> 0]]

\* tickContext.addTickable(tickable, voiceIndex)
addTickable(context, e) ==
  [context EXCEPT
     !.tickables = Append(@, [voice |-> e.voice, index |-> e.index]),
     !.tickablesByVoice = (e.voiceIndex :> [voice |-> e.voice, index |-> e.index]) @@ @]

\* The body of the two forEach loops, applied to entries k.. of the walk.
RECURSIVE AddToTickContexts(_, _, _)
AddToTickContexts(acc, walk, k) ==
  IF k > Len(walk) THEN acc
  ELSE LET e == walk[k]
           fresh == e.tick \notin DOMAIN acc.map
           map1 == IF fresh THEN (e.tick :> NewTickContext(e.tick)) @@ acc.map
                   ELSE acc.map
           acc1 == [map |-> [map1 EXCEPT ![e.tick] = addTickable(@, e)],
                    array |-> IF fresh THEN Append(acc.array, e.tick) ELSE acc.array,
                    list |-> IF fresh THEN Append(acc.list, e.tick) ELSE acc.list]
       IN  AddToTickContexts(acc1, walk, k + 1)

\* tickList.sort((a, b) => a - b)
RECURSIVE SortAscending(_)
SortAscending(s) ==
  IF Len(s) = 0 THEN <<>>
  ELSE LET m == CHOOSE i \in DOMAIN s : \A j \in DOMAIN s : s[i] <= s[j]
       IN  <<s[m]>> \o SortAscending([j \in 1..(Len(s) - 1) |->
                                        IF j < m THEN s[j] ELSE s[j + 1]])

EmptyTickContexts ==
  [defined |-> TRUE, map |-> <<>>, array |-> <<>>, list |-> <<>>,
   resolutionMultiplier |-> 0]

\* What createTickContexts builds for a non-empty list with multiplier m.
\* The collection made of the map, array and list the walk has filled.
AlignmentTickContexts(built, m) ==
  [defined |-> TRUE, map |-> built.map, array |-> built.array,
   list |-> SortAscending(built.list), resolutionMultiplier |-> m]

BuildTickContexts(vs, m) ==
  AlignmentTickContexts(
    AddToTickContexts([map |-> <<>>, array |-> <<>>, list |-> <<>>], Walk(vs, 1, m), 1),
    m)

\* contextArray.forEach: every context of the array is given the array
\* itself, the contexts being named by their ticks.
linkTickContexts(contexts) ==
  [contexts EXCEPT !.map =
     [t \in DOMAIN contexts.map |->
        IF t \in Range(contexts.array)
        THEN [contexts.map[t] EXCEPT !.tContexts = contexts.array]
        ELSE contexts.map[t]]]

\* The collection is assigned to this.tickContexts and returned.
AssignTickContexts(contexts) ==
  [result |-> Returned("contexts", Len(contexts.list)),
   contexts |-> linkTickContexts(contexts)]

\* createTickContexts from the resolution multiplier on: m is the outcome of
\* getResolutionMultiplier, an error of which ends the call.
createTickContextsFrom(vs, held, m) ==
  IF m.err # "none" THEN [result |-> m, contexts |-> held]
  ELSE AssignTickContexts(BuildTickContexts(vs, m.value))

\* createTickContexts without its short cut for an empty list.
createTickContextsChecked(vs, held) ==
  createTickContextsFrom(vs, held, getResolutionMultiplier(vs))

\* createTickContexts as a function of the Formatter's contexts: the outcome
\* and the contexts the Formatter holds afterwards.
createTickContexts(vs, held) ==
  IF Len(vs) = 0 THEN [result |-> Returned("contexts", 0), contexts |-> held]
  ELSE createTickContextsFrom(vs, held, getResolutionMultiplier(vs))

(***************************************************************************)
(* Formatter.createModifierContexts.                                       *)
(***************************************************************************)
\* The contexts of one call: one per stave and tick, in creation order, each
\* with the tickables added to it.
RECURSIVE AddToModifierContexts(_, _, _, _)
AddToModifierContexts(acc, walk, k, staves) ==
  IF k > Len(walk) THEN acc
  ELSE LET e == walk[k]
           key == <<staves[e.voice], e.tick>>
           at == {i \in DOMAIN acc : acc[i].key = key}
           acc1 == IF at = {}
                   THEN Append(acc, [key |-> key, members |-> <<>>, postFormatted |-> FALSE])
                   ELSE acc
           pos == CHOOSE i \in DOMAIN acc1 : acc1[i].key = key
       IN  AddToModifierContexts(
             [acc1 EXCEPT ![pos].members = Append(@, [voice |-> e.voice, index |-> e.index])],
             walk, k + 1, staves)

BuildModifierContexts(vs, m, staves) ==
  [array |-> AddToModifierContexts(<<>>, Walk(vs, 1, m), 1, staves),
   resolutionMultiplier |-> m]

\* createModifierContexts from the resolution multiplier on, with the set
\* of the call assigned where the method pushes it.
createModifierContextsAssigning(vs, held, staves, m) ==
  IF m.err # "none" THEN [result |-> m, contexts |-> held]
  ELSE [result |-> Returned("void", 0),
        contexts |-> <<BuildModifierContexts(vs, m.value, staves)>>]

\* createModifierContexts with the sets of earlier calls dropped.
createModifierContextsReplacing(vs, held, staves) ==
  IF Len(vs) = 0 THEN [result |-> Returned("void", 0), contexts |-> held]
  ELSE createModifierContextsAssigning(vs, held, staves, getResolutionMultiplier(vs))

\* createModifierContexts from the resolution multiplier on: m is the
\* outcome of getResolutionMultiplier, an error of which ends the call.
createModifierContextsFrom(vs, held, staves, m) ==
  IF m.err # "none" THEN [result |-> m, contexts |-> held]
  ELSE [result |-> Returned("void", 0),
        contexts |-> Append(held, BuildModifierContexts(vs, m.value, staves))]

\* The outcome and the Formatter's modifierContexts afterwards.
createModifierContexts(vs, held, staves) ==
  IF Len(vs) = 0 THEN [result |-> Returned("void", 0), contexts |-> held]
  ELSE createModifierContextsFrom(vs, held, staves, getResolutionMultiplier(vs))

(***************************************************************************)
(* TickContext (tickcontext.ts) and the metrics of a tickable.             *)
(***************************************************************************)
Px(p) == p * PxScale

TickableOf(ref) == getTickables(ref.voice)[ref.index]

\* tickable.getMetrics(), in units; no displaced note heads.
notePxOf(ref) == Px(TickableOf(ref).notePx)
modLeftPxOf(ref) == Px(TickableOf(ref).modLeftPx)
modRightPxOf(ref) == Px(TickableOf(ref).modRightPx)

\* tickable.getWidth()
tickableWidth(ref) == notePxOf(ref) + modLeftPxOf(ref) + modRightPxOf(ref)

\* The largest of a set of extents, 0 for none.
MaxOf(S) == IF S = {} THEN 0 ELSE CHOOSE m \in S : \A n \in S : n <= m

\* context.preFormat(): the largest left, right and note extents of its tickables.
contextPreFormat(context) ==
  IF context.preFormatted THEN context
  ELSE LET ts == context.tickables
           notePx == MaxOf({notePxOf(ts[k]) : k \in DOMAIN ts})
           left == MaxOf({modLeftPxOf(ts[k]) : k \in DOMAIN ts})
           right == MaxOf({modRightPxOf(ts[k]) : k \in DOMAIN ts})
       IN  [context EXCEPT !.preFormatted = TRUE, !.notePx = notePx,
              !.totalLeftPx = left, !.totalRightPx = right,
              !.width = notePx + left + right]

\* context.getMaxTickable(): the first tickable with the most ticks.
getMaxTickable(context) ==
  LET ts == context.tickables
      best == CHOOSE i \in DOMAIN ts :
                /\ \A j \in DOMAIN ts : ~FractionGreater(TickableOf(ts[j]).ticks, TickableOf(ts[i]).ticks)
                /\ \A j \in 1..(i - 1) : FractionGreater(TickableOf(ts[i]).ticks, TickableOf(ts[j]).ticks)
  IN  ts[best]

(***************************************************************************)
(* Stave metrics (Metrics.get), in pixels.                                 *)
(***************************************************************************)
StaveEndPaddingMin == 5
StaveEndPaddingMax == 10
StavePadding == 12
StaveUnalignedNotePadding == 10

(***************************************************************************)
(* Voice.softmax.  Every Formatter and voice of the model uses the softmax *)
(* factor 2^6, and every tickable lasts a multiple of a sixth of its       *)
(* voice's total, so that factor ** (ticks / totalTicks) is a power of two.*)
(***************************************************************************)
RECURSIVE Pow2(_)
Pow2(n) == IF n = 0 THEN 1 ELSE 2 * Pow2(n - 1)

\* softmaxFactor ** (ticks / totalTicks)
voiceExp(v, ticks) ==
  Pow2((6 * ticks.numerator * getTotalTicks(v).denominator)
         \div (ticks.denominator * getTotalTicks(v).numerator))

RECURSIVE expTicksUpTo(_, _)
expTicksUpTo(v, k) ==
  IF k = 0 THEN 0 ELSE expTicksUpTo(v, k - 1) + voiceExp(v, getTickables(v)[k].ticks)

expTicksUsed(v) == expTicksUpTo(v, Len(getTickables(v)))

\* voice.softmax(ticks) * width, rounded down to a unit.
softmaxTimes(v, ticks, width) == (voiceExp(v, ticks) * width) \div expTicksUsed(v)

(***************************************************************************)
(* Stave: the note area of the stave the calls are given, which starts at  *)
(* 15 px and ends at 210 px once the stave is formatted, and the padding   *)
(* of a stave.                                                             *)
(***************************************************************************)
StaveNoteArea == [startX |-> Px(15), endX |-> Px(210)]

getNoteStartX(stave) == StaveNoteArea.startX

getNoteEndX(stave) == StaveNoteArea.endX

defaultPadding == Px(StavePadding) + Px(StaveEndPaddingMax)

(***************************************************************************)
(* Formatter.preFormat, pass 1: every context at its minimum distance.     *)
(***************************************************************************)
\* The x of a context, with the left extent of the context left out.
minimumXWithoutLeft(x, shift, context) == x + shift

\* x = x + shift + metrics.totalLeftPx
minimumX(x, shift, context) == x + shift + context.totalLeftPx

RECURSIVE passOne(_, _, _, _)
passOne(contexts, k, x, shift) ==
  IF k > Len(contexts.list)
  THEN [contexts |-> contexts, minTotalWidth |-> x + shift]
  ELSE LET tick == contexts.list[k]
           context == contextPreFormat(contexts.map[tick])
           x1 == minimumX(x, shift, context)
       IN  passOne([contexts EXCEPT !.map[tick] = [context EXCEPT !.x = x1]],
                   k + 1, x1, context.width - context.totalLeftPx)

contextAt(contexts, i) == contexts.map[contexts.list[i]]

firstContext(contexts) == contextAt(contexts, 1)

lastContext(contexts) == contextAt(contexts, Len(contexts.list))

(***************************************************************************)
(* calculateIdealDistances (inside preFormat).                             *)
(***************************************************************************)
\* The voices context i shares with the earlier context j.
matchingVoices(contexts, i, j) ==
  DOMAIN contextAt(contexts, i).tickablesByVoice
    \cap DOMAIN contextAt(contexts, j).tickablesByVoice

\* The nearest earlier context that shares a voice with context i; 0: none.
backIndex(contexts, i) ==
  LET js == {j \in 1..(i - 1) : matchingVoices(contexts, i, j) # {}}
  IN  IF js = {} THEN 0 ELSE CHOOSE j \in js : \A h \in js : h <= j

\* The room between the tickables of voice v in context i and in context j.
voiceRoom(contexts, i, j, v) ==
  LET this == contextAt(contexts, i)
      back == contextAt(contexts, j)
      insideLeftEdge == this.x - modLeftPxOf(this.tickablesByVoice[v])
      insideRightEdge == back.x + notePxOf(back.tickablesByVoice[v])
                           + modRightPxOf(back.tickablesByVoice[v])
  IN  insideLeftEdge - insideRightEdge

NoDistance ==
  [expectedDistance |-> 0, maxNegativeShiftPx |-> 0, hasFrom |-> FALSE, fromIndex |-> 0]

idealDistance(contexts, i, adjustedJustifyWidth) ==
  LET j == backIndex(contexts, i)
  IN  IF i = 1 \/ j = 0 THEN NoDistance
      ELSE LET matching == matchingVoices(contexts, i, j)
               back == contextAt(contexts, j)
               \* the first matching voice, in key order, with the most ticks
               v == CHOOSE a \in matching :
                      /\ \A b \in matching :
                           ~FractionGreater(TickableOf(back.tickablesByVoice[b]).ticks,
                                            TickableOf(back.tickablesByVoice[a]).ticks)
                      /\ \A b \in matching : b < a =>
                           FractionGreater(TickableOf(back.tickablesByVoice[a]).ticks,
                                           TickableOf(back.tickablesByVoice[b]).ticks)
               backTickable == back.tickablesByVoice[v]
               room == CHOOSE r \in {voiceRoom(contexts, i, j, a) : a \in matching} :
                         \A a \in matching : r <= voiceRoom(contexts, i, j, a)
               \* adjustedJustifyWidth * 0.05
               fivePercent == adjustedJustifyWidth \div 20
           IN  [expectedDistance |->
                  softmaxTimes(backTickable.voice, TickableOf(backTickable).ticks,
                               adjustedJustifyWidth),
                maxNegativeShiftPx |->
                  Min(room, contextAt(contexts, i).x
                              - (contextAt(contexts, i - 1).x + fivePercent)),
                hasFrom |-> TRUE, fromIndex |-> j]

calculateIdealDistances(contexts, adjustedJustifyWidth) ==
  [i \in 1..Len(contexts.list) |-> idealDistance(contexts, i, adjustedJustifyWidth)]

(***************************************************************************)
(* shiftToIdealDistances (inside preFormat).                               *)
(***************************************************************************)
\* The forEach from context k on, with the space accumulated so far.
RECURSIVE shiftFrom(_, _, _, _)
shiftFrom(contexts, idealDistances, k, spaceAccum) ==
  IF k > Len(contexts.list) THEN contexts
  ELSE IF k = 1 THEN shiftFrom(contexts, idealDistances, 2, spaceAccum)
  ELSE LET tick == contexts.list[k]
           contextX == contexts.map[tick].x
           ideal == idealDistances[k]
           errorPx == contextAt(contexts, ideal.fromIndex).x + ideal.expectedDistance
                        - (contextX + spaceAccum)
           negativeShiftPx == IF errorPx < 0
                              THEN Min(ideal.maxNegativeShiftPx, Abs(errorPx)) ELSE 0
           accum1 == IF errorPx > 0 THEN spaceAccum + errorPx
                     ELSE IF errorPx < 0 THEN spaceAccum - negativeShiftPx
                     ELSE spaceAccum
       IN  CHOOSE shifted \in
             {shiftFrom(moved, idealDistances, k + 1, accum) :
                moved \in {[contexts EXCEPT !.map[tick].x = contextX + accum1]},
                accum \in {accum1}} : TRUE

\* The contexts after the shift; the width the function returns is
\* actualWidthOf of them.
shiftToIdealDistances(contexts, idealDistances) ==
  shiftFrom(contexts, idealDistances, 1, 0)

actualWidthOf(contexts) == lastContext(contexts).x - firstContext(contexts).x

(***************************************************************************)
(* calcMinDistance and paddingMaxCalc (inside preFormat).                  *)
(***************************************************************************)
RECURSIVE minHalfDistance(_, _, _)
minHalfDistance(distances, di, mdCalc) ==
  IF di > Len(distances) THEN mdCalc
  ELSE minHalfDistance(distances, di + 1,
                       Min(distances[di].expectedDistance \div 2, mdCalc))

calcMinDistance(targetWidth, distances) ==
  minHalfDistance(distances, 2, targetWidth \div 2)

\* configMaxPadding * 2 < padding ? padding : configMaxPadding
paddingOrMax(padding) ==
  IF Px(StaveEndPaddingMax) * 2 < padding THEN padding ELSE Px(StaveEndPaddingMax)

\* The room the softmax of its voice leaves after the last tickable.
lastTickablePadding(lastTickable, curTargetWidth) ==
  softmaxTimes(lastTickable.voice, TickableOf(lastTickable).ticks, curTargetWidth)
    - (tickableWidth(lastTickable) + Px(StavePadding))

paddingMaxFor(lastTickable, curTargetWidth, minDistance) ==
  IF FractionGreater(getTicksUsed(lastTickable.voice), getTotalTicks(lastTickable.voice))
  THEN paddingOrMax(minDistance)
  ELSE paddingOrMax(lastTickablePadding(lastTickable, curTargetWidth))

paddingMaxCalc(contexts, curTargetWidth, minDistance) ==
  paddingMaxFor(getMaxTickable(lastContext(contexts)), curTargetWidth, minDistance)

(***************************************************************************)
(* Formatter.preFormat up to its correction loop.  The outcome is one of:  *)
(* "raised" (an error), "evaluate" (no justification: return evaluate()),  *)
(* "zero" (one context: return 0) and "loop" (the loop is entered with the *)
(* locals in frame).                                                       *)
(***************************************************************************)
IdleFrame ==
  [active |-> FALSE, caller |-> "none", stave |-> "none", justifyWidth |-> 0,
   adjustedJustifyWidth |-> 0, targetWidth |-> 0, actualWidth |-> 0,
   paddingMax |-> 0, paddingMin |-> 0, maxX |-> 0, iterations |-> 0, passes |-> 0,
   minDistance |-> 0]

\* The outcome of a preFormat that ends after pass 1: return evaluate().
Evaluated(one) ==
  [phase |-> "evaluate", error |-> "none", contexts |-> one.contexts,
   widthKnown |-> TRUE, minTotalWidth |-> one.minTotalWidth, frame |-> IdleFrame]

\* justifyWidth less the extents of the last and of the first context
adjustedJustifyWidthOf(contexts, width) ==
  width - lastContext(contexts).notePx - lastContext(contexts).totalRightPx
        - firstContext(contexts).totalLeftPx

\* The locals the loop is entered with.
loopFrame(width, caller, stave, budget, adjusted, shifted, minDistance, paddingMax, paddingMin) ==
  [active |-> TRUE, caller |-> caller, stave |-> stave, justifyWidth |-> width,
   adjustedJustifyWidth |-> adjusted, targetWidth |-> adjusted,
   actualWidth |-> actualWidthOf(shifted),
   paddingMax |-> paddingMax, paddingMin |-> paddingMin,
   maxX |-> adjusted - paddingMin,
   iterations |-> budget, passes |-> 1, minDistance |-> minDistance]

\* After the first shift: one context ends the call with 0; otherwise the
\* paddings are fixed and the loop is entered.
preFormatPadded(base, width, caller, stave, budget, adjusted, shifted, minDistance, paddingMax) ==
  IF Len(shifted.list) = 1
  THEN [base EXCEPT !.phase = "zero", !.contexts = shifted]
  ELSE [base EXCEPT
          !.phase = "loop", !.contexts = shifted,
          !.frame = loopFrame(width, caller, stave, budget, adjusted, shifted,
                              minDistance, paddingMax,
                              paddingMax - (Px(StaveEndPaddingMax)
                                              - Px(StaveEndPaddingMin)))]

preFormatShifted(base, width, caller, stave, budget, adjusted, shifted, minDistance) ==
  preFormatPadded(base, width, caller, stave, budget, adjusted, shifted, minDistance,
                  paddingMaxCalc(shifted, adjusted, minDistance))

preFormatDistances(base, width, caller, stave, budget, adjusted, distances) ==
  preFormatShifted(base, width, caller, stave, budget, adjusted,
                   shiftToIdealDistances(base.contexts, distances),
                   calcMinDistance(adjusted, distances))

preFormatAdjusted(base, width, caller, stave, budget, adjusted) ==
  preFormatDistances(base, width, caller, stave, budget, adjusted,
                     calculateIdealDistances(base.contexts, adjusted))

\* preFormat after pass 1, base being its outcome so far.
preFormatJustify(base, width, caller, stave, budget) ==
  IF width <= 0 THEN base
  ELSE IF Len(base.contexts.list) = 0
  \* lastContext is undefined: lastContext.getMetrics() throws
  THEN [base EXCEPT !.phase = "raised", !.error = "TypeError"]
  ELSE preFormatAdjusted(base, width, caller, stave, budget,
                         adjustedJustifyWidthOf(base.contexts, width))

preFormatStart(held, width, caller, stave, budget) ==
  IF ~held.defined
  THEN [phase |-> "raised", error |-> "NoTickContexts", contexts |-> held,
        widthKnown |-> FALSE, minTotalWidth |-> 0, frame |-> IdleFrame]
  ELSE preFormatJustify(Evaluated(passOne(held, 1, 0, 0)), width, caller, stave, budget)

\* The condition with the last iteration of the budget held back from a
\* layout that is too wide, as it is from one that is too narrow.
loopConditionSparing(f) ==
  \/ f.actualWidth > f.maxX /\ f.iterations > 1
  \/ f.actualWidth + f.paddingMax < f.maxX /\ f.iterations > 1

\* The condition with the whole budget open to a layout that is too narrow,
\* as it is to one that is too wide.
loopConditionUnsparing(f) ==
  \/ f.actualWidth > f.maxX /\ f.iterations > 0
  \/ f.actualWidth + f.paddingMax < f.maxX /\ f.iterations > 0

\* The condition of the while loop.
loopCondition(f) ==
  \/ f.actualWidth > f.maxX /\ f.iterations > 0
  \/ f.actualWidth + f.paddingMax < f.maxX /\ f.iterations > 1

(***************************************************************************)
(* Formatter.postFormat.                                                   *)
(***************************************************************************)
postFormatTicks(contexts) ==
  [contexts EXCEPT !.map = [t \in DOMAIN contexts.map |->
                              [contexts.map[t] EXCEPT !.postFormatted = TRUE]]]

postFormatModifiers(mcs) ==
  [g \in DOMAIN mcs |->
     [mcs[g] EXCEPT !.array = [i \in DOMAIN mcs[g].array |->
                                 [mcs[g].array[i] EXCEPT !.postFormatted = TRUE]]]]

\* Math.pow(x, 0.5), rounded down.
RECURSIVE sqrtBetween(_, _, _)
sqrtBetween(n, lo, hi) ==
  IF lo >= hi THEN lo
  ELSE CHOOSE r \in {IF mid * mid <= n THEN sqrtBetween(n, mid, hi)
                     ELSE sqrtBetween(n, lo, mid - 1) : mid \in {(lo + hi + 1) \div 2}} : TRUE

sqrt(n) == CHOOSE r \in {sqrtBetween(v, 0, Min(v, 46340)) : v \in {n}} : TRUE

sumArray(s) ==
  LET RECURSIVE sumFrom(_)
      sumFrom(k) == IF k > Len(s) THEN 0 ELSE s[k] + sumFrom(k + 1)
  IN  sumFrom(1)

(***************************************************************************)
(* Formatter.evaluate.  A tickable reads its x from the tick context it    *)
(* was last added to: a context the Formatter holds ("held"), a context of *)
(* a collection the Formatter has replaced since ("left", with the x each  *)
(* tickable has there), or no context at all ("none").                     *)
(***************************************************************************)
NotAttached == [to |-> "none", x |-> <<>>]

HeldAttached == [to |-> "held", x |-> <<>>]

\* The x of the context of the collection that holds the tickable.
xInContexts(contexts, ref) ==
  contexts.map[CHOOSE t \in DOMAIN contexts.map :
                 ref \in Range(contexts.map[t].tickables)].x

\* The contexts of the voices after createTickContexts has built a new
\* collection from vs: the voices of vs are in it, and a voice that is not
\* keeps the contexts of the collection the Formatter held.
attachTo(att, old, vs) ==
  [v \in DOMAIN att |->
     IF v \in Range(vs) THEN HeldAttached
     ELSE IF att[v].to = "held"
     THEN [to |-> "left",
           x |-> [k \in 1..Len(getTickables(v)) |->
                    xInContexts(old, [voice |-> v, index |-> k])]]
     ELSE att[v]]

\* note.getX()
noteX(contexts, att, ref) ==
  IF att[ref.voice].to = "held" THEN xInContexts(contexts, ref)
  ELSE att[ref.voice].x[ref.index]

\* The tickables of the voices i.. of a list, in the order of the forEach
\* loops, up to the first voice whose tickables have no tick context.
RECURSIVE notesFrom(_, _, _)
notesFrom(vs, att, i) ==
  IF i > Len(vs) \/ att[vs[i]].to = "none" THEN <<>>
  ELSE [k \in 1..Len(getTickables(vs[i])) |-> [voice |-> vs[i], index |-> k]]
         \o notesFrom(vs, att, i + 1)

\* formatterMetrics.space.used: the distance to the next note of the voice,
\* or to justifyWidth for the last note.
spaceUsed(contexts, att, width, ref) ==
  IF ref.index < Len(getTickables(ref.voice))
  THEN noteX(contexts, att, [ref EXCEPT !.index = @ + 1]) - noteX(contexts, att, ref)
  ELSE width - noteX(contexts, att, ref)

\* note.getTicks().clone().simplify().toString()
durationOf(ref) ==
  <<TickableOf(ref).ticks.numerator
      \div GCD(TickableOf(ref).ticks.numerator, TickableOf(ref).ticks.denominator),
    TickableOf(ref).ticks.denominator
      \div GCD(TickableOf(ref).ticks.numerator, TickableOf(ref).ticks.denominator)>>

\* One entry of durationStats, from the space of the notes of a duration.
statsOver(spaces) ==
  [count |-> Len(spaces), total |-> sumArray(spaces),
   mean |-> sumArray(spaces) \div Len(spaces)]

RECURSIVE spacesOf(_, _, _, _)
spacesOf(notes, used, duration, i) ==
  IF i > Len(notes) THEN <<>>
  ELSE (IF durationOf(notes[i]) = duration THEN <<used[i]>> ELSE <<>>)
         \o spacesOf(notes, used, duration, i + 1)

\* durationStats after updateStats for every note.
durationStatsOf(notes, used) ==
  [d \in {durationOf(notes[i]) : i \in DOMAIN notes} |->
     statsOver(spacesOf(notes, used, d, 1))]

\* this.contextGaps: the gap between each context and the one before it.
contextGapsOf(contexts) ==
  [total |-> sumArray([k \in 1..(Len(contexts.list) - 1) |->
                         (contextAt(contexts, k + 1).x - contextAt(contexts, k + 1).totalLeftPx)
                           - (contextAt(contexts, k).x + contextAt(contexts, k).notePx
                                + contextAt(contexts, k).totalRightPx)]),
   gaps |-> [k \in 1..(Len(contexts.list) - 1) |->
               [x1 |-> contextAt(contexts, k).x + contextAt(contexts, k).notePx
                         + contextAt(contexts, k).totalRightPx,
                x2 |-> contextAt(contexts, k + 1).x - contextAt(contexts, k + 1).totalLeftPx]]]

\* The first loop of evaluate on the contexts: the gap before a context is
\* its freedom to the left, the gap after it its freedom to the right.
evaluateFreedom(contexts) ==
  [contexts EXCEPT !.map =
     [t \in DOMAIN contexts.map |->
        [contexts.map[t] EXCEPT
           !.freedom =
              [left |-> IF \E k \in 2..Len(contexts.list) : contexts.list[k] = t
                        THEN LET k == CHOOSE h \in 2..Len(contexts.list) : contexts.list[h] = t
                             IN  contextGapsOf(contexts).gaps[k - 1].x2
                                   - contextGapsOf(contexts).gaps[k - 1].x1
                        ELSE @.left,
               right |-> IF \E k \in 1..(Len(contexts.list) - 1) : contexts.list[k] = t
                         THEN LET k == CHOOSE h \in 1..(Len(contexts.list) - 1) :
                                         contexts.list[h] = t
                              IN  contextGapsOf(contexts).gaps[k].x2
                                    - contextGapsOf(contexts).gaps[k].x1
                         ELSE @.right]]]]

\* formatterMetrics.space of a tickable no evaluate has reached.
NoSpace == [used |-> 0, mean |-> 0, deviation |-> 0]

\* The space a tickable holds, given the spaces set so far.
spaceOf(metrics, ref) == IF ref \in DOMAIN metrics THEN metrics[ref] ELSE NoSpace

\* The spaces after the first loop over the voices: space.used of every note.
metricsUsed(metrics, notes, used) ==
  [ref \in DOMAIN metrics \cup Range(notes) |->
     IF ref \in Range(notes)
     THEN [spaceOf(metrics, ref) EXCEPT
             !.used = used[CHOOSE i \in DOMAIN notes : notes[i] = ref]]
     ELSE metrics[ref]]

\* The spaces after the second loop: mean and deviation of every note.
metricsOf(metrics, notes, used, stats) ==
  [ref \in DOMAIN metrics \cup Range(notes) |->
     IF ref \in Range(notes)
     THEN [used |-> used[CHOOSE i \in DOMAIN notes : notes[i] = ref],
           mean |-> stats[durationOf(ref)].mean,
           deviation |-> used[CHOOSE i \in DOMAIN notes : notes[i] = ref]
                           - stats[durationOf(ref)].mean]
     ELSE metrics[ref]]

\* Math.sqrt of the sum of the squared deviations from the mean.
totalCostOf(notes, used, stats) ==
  sqrt(sumArray([i \in 1..Len(notes) |->
                   (used[i] - stats[durationOf(notes[i])].mean)
                     * (used[i] - stats[durationOf(notes[i])].mean)]))

NoEvaluation ==
  [totalCost |-> 0, lossHistory |-> <<>>, durationStats |-> <<>>,
   contextGaps |-> [total |-> 0, gaps |-> <<>>], metrics |-> <<>>, totalShift |-> 0,
   accounted |-> {}]

\* An end of evaluate that adds the cost to the cost stored before.
evaluateEndAccumulating(held, gaps, stats, cost) ==
  [result |-> Returned("cost", held.totalCost + cost),
   evaluation |-> [totalCost |-> held.totalCost + cost,
                   lossHistory |-> Append(held.lossHistory, held.totalCost + cost),
                   durationStats |-> stats, contextGaps |-> gaps,
                   metrics |-> held.metrics, totalShift |-> held.totalShift,
                   accounted |-> held.accounted]]

\* The end of evaluate: the cost is stored, pushed and returned.
evaluateEnd(held, gaps, stats, cost) ==
  [result |-> Returned("cost", cost),
   evaluation |-> [totalCost |-> cost, lossHistory |-> Append(held.lossHistory, cost),
                   durationStats |-> stats, contextGaps |-> gaps,
                   metrics |-> held.metrics, totalShift |-> held.totalShift,
                   accounted |-> held.accounted]]

\* evaluate from the second loop over the voices on.
evaluateStats(held, gaps, notes, used, stats) ==
  CHOOSE end \in {evaluateEnd([held EXCEPT !.metrics = metricsOf(@, notes, used, stats),
                                           !.accounted = Range(notes)],
                              gaps, stats, cost) :
                    cost \in {totalCostOf(notes, used, stats)}} : TRUE

evaluateUsed(held, gaps, notes, used) ==
  CHOOSE end \in {evaluateStats(held, gaps, notes, used, stats) :
                    stats \in {durationStatsOf(notes, used)}} : TRUE

\* evaluate from the first loop over the voices on: note.getX() throws on a
\* tickable without tick context, after the gaps and the stats of the notes
\* before it have been stored.
evaluateNotes(held, contexts, vs, width, att, gaps, notes) ==
  IF \E i \in DOMAIN vs : att[vs[i]].to = "none" /\ getTickables(vs[i]) # <<>>
  THEN [result |-> Raised("NoTickContext"),
        evaluation |-> [held EXCEPT
                          !.contextGaps = gaps,
                          !.durationStats =
                             durationStatsOf(notes,
                               [i \in 1..Len(notes) |->
                                  spaceUsed(contexts, att, width, notes[i])]),
                          !.metrics =
                             metricsUsed(@, notes,
                               [i \in 1..Len(notes) |->
                                  spaceUsed(contexts, att, width, notes[i])])]]
  ELSE CHOOSE end \in
         {evaluateUsed(held, gaps, notes, used) :
            used \in {[i \in 1..Len(notes) |->
                         spaceUsed(contexts, att, width, notes[i])]}} : TRUE

\* evaluate(): the outcome, and what the Formatter keeps of it.
evaluate(held, contexts, vs, width, att) ==
  CHOOSE end \in
    {evaluateNotes(held, contexts, vs, width, att, gaps, notes) :
       gaps \in {contextGapsOf(contexts)}, notes \in {notesFrom(vs, att, 1)}} : TRUE

(***************************************************************************)
(* Formatter.SimpleFormat (static).                                        *)
(***************************************************************************)
\* { paddingBetween = 10 } = {}
DefaultPaddingBetween == 10

paddingBetweenOf(options) ==
  IF options = <<>> THEN Px(DefaultPaddingBetween) ELSE options[1]

\* new TickContext().addTickable(note).preFormat()
noteContext(ref) ==
  contextPreFormat(addTickable(NewTickContext(0),
                               [voice |-> ref.voice, index |-> ref.index, voiceIndex |-> 0]))

\* A reduce that leaves the padding out of the accumulator.
RECURSIVE simpleFormatUnpadded(_, _, _, _)
simpleFormatUnpadded(notes, k, accumulator, paddingBetween) ==
  IF k > Len(notes) THEN <<>>
  ELSE <<accumulator + noteContext(notes[k]).totalLeftPx>>
         \o simpleFormatUnpadded(notes, k + 1,
                                 accumulator + noteContext(notes[k]).width
                                   + noteContext(notes[k]).totalRightPx,
                                 paddingBetween)

\* notes.reduce from note k on: the x of the context of each note.
RECURSIVE simpleFormatFrom(_, _, _, _)
simpleFormatFrom(notes, k, accumulator, paddingBetween) ==
  IF k > Len(notes) THEN <<>>
  ELSE <<accumulator + noteContext(notes[k]).totalLeftPx>>
         \o simpleFormatFrom(notes, k + 1,
                             accumulator + noteContext(notes[k]).width
                               + noteContext(notes[k]).totalRightPx + paddingBetween,
                             paddingBetween)

\* The notes of a voice, as SimpleFormat is given them.
notesOfVoice(v) == [k \in 1..Len(getTickables(v)) |-> [voice |-> v, index |-> k]]

(***************************************************************************)
(* Formatter.preCalculateMinTotalWidth.                                    *)
(***************************************************************************)
\* All tickables of the contexts, in tick order.
RECURSIVE tickablesFrom(_, _)
tickablesFrom(contexts, k) ==
  IF k > Len(contexts.list) THEN <<>>
  ELSE contextAt(contexts, k).tickables \o tickablesFrom(contexts, k + 1)

\* (stddev / mean) * count * unalignedPadding for the numbers in values, where
\* mean is sum / n, or 1 / n when floor is set and the sum is 0.
paddingFor(values, floor, count) ==
  LET n == Len(values)
      sum == sumArray(values)
      a == IF floor /\ sum = 0 THEN 1 ELSE sum
      squares == sumArray([i \in 1..n |-> (n * values[i] - a) * (n * values[i] - a)])
  IN  (sqrt(squares \div n) * count * Px(StaveUnalignedNotePadding)) \div a

\* The contexts after context.preFormat() on each of them.
preFormatContexts(contexts) ==
  [contexts EXCEPT !.map = [t \in DOMAIN contexts.map |-> contextPreFormat(contexts.map[t])]]

\* The sum with the modifiers of the contexts left out of their widths.
sumContextNoteWidths(contexts) ==
  sumArray([k \in 1..Len(contexts.list) |-> contextAt(contexts, k).notePx])

\* The sum of the widths of the contexts.
sumContextWidths(contexts) ==
  sumArray([k \in 1..Len(contexts.list) |-> contextAt(contexts, k).width])

\* The contexts that hold fewer tickables than there are voices.
unalignedCtxCount(vs, contexts) ==
  Cardinality({k \in 1..Len(contexts.list) :
                 Len(contextAt(contexts, k).tickables) < Len(vs)})

tickableWidths(all) == [i \in 1..Len(all) |-> tickableWidth(all[i])]

\* The durations of the tickables as whole numbers of one common unit.
commonDenominator(all) ==
  LET RECURSIVE lcmFrom(_)
      lcmFrom(k) == IF k > Len(all) THEN 1
                    ELSE LCM(TickableOf(all[k]).ticks.denominator, lcmFrom(k + 1))
  IN  lcmFrom(1)

tickDurations(all, common) ==
  [i \in 1..Len(all) |->
     TickableOf(all[i]).ticks.numerator * (common \div TickableOf(all[i]).ticks.denominator)]

\* The width returned: NaN when there is no tickable or no duration.
minTotalWidthResult(preFormatted, minWidth, unaligned, widths, durations) ==
  [contexts |-> preFormatted, minTotalWidth |-> minWidth,
   result |->
     IF Len(durations) = 0 \/ sumArray(durations) = 0 THEN Returned("NaN", 0)
     ELSE Returned("number",
            minWidth + Max(Px(StaveUnalignedNotePadding) * unaligned,
                           Max(paddingFor(durations, FALSE, Len(preFormatted.list)),
                               paddingFor(widths, TRUE, Len(preFormatted.list)))))]

minTotalWidthOver(preFormatted, minWidth, unaligned, all) ==
  minTotalWidthResult(preFormatted, minWidth, unaligned, tickableWidths(all),
                      tickDurations(all, commonDenominator(all)))

minTotalWidthOf(vs, preFormatted) ==
  minTotalWidthOver(preFormatted, sumContextWidths(preFormatted),
                    unalignedCtxCount(vs, preFormatted), tickablesFrom(preFormatted, 1))

preCalculateMinTotalWidth(vs, contexts) ==
  minTotalWidthOf(vs, preFormatContexts(contexts))

(***************************************************************************)
(* The calls on the Formatter.  A call runs to its end in one step, except *)
(* a preFormat that enters its correction loop: each pass of the loop is a *)
(* step, and no other call starts before the loop has ended.               *)
(***************************************************************************)
Idle == ~frame.active

Running == [err |-> "none", kind |-> "running", value |-> 0]

\* voice.setStave(stave) for the voices of a list.
setStave(vs, stave, staves) ==
  [v \in DOMAIN staves |-> IF v \in Range(vs) THEN stave ELSE staves[v]]

\* The history of a Formatter:
\*   createTickContextsRan  createTickContexts has been entered, by a call of
\*                          its own or from preCalculateMinTotalWidth or format;
\*   completedSinceJoin     a preCalculateMinTotalWidth, preFormat or format
\*                          call has returned since the construction or the
\*                          most recent joinVoices call that returned.
\*   order                  preFormat and postFormat, in the order the most
\*                          recent format, formatToStave or preFormat call
\*                          has entered them.
NoHistory ==
  [createTickContextsRan |-> FALSE, completedSinceJoin |-> FALSE, order |-> <<>>]

\* new Formatter({maxIterations})
Constructed(budget) ==
  /\ hasMinTotalWidth = FALSE
  /\ minTotalWidth = 0
  /\ tickContexts = EmptyTickContexts
  /\ modifierContexts = <<>>
  /\ voices = <<>>
  /\ justifyWidth = 0
  /\ maxIterations = budget
  /\ voiceStave = [v \in VoiceIds |-> "none"]
  /\ call = Call("constructor", <<>>, 0, "none")
  /\ result = Returned("void", 0)
  /\ frame = IdleFrame
  /\ calls = 0
  /\ history = NoHistory
  /\ evaluation = NoEvaluation
  /\ attached = [v \in VoiceIds |-> NotAttached]

\* joinVoices after createModifierContexts, made being its outcome: an error
\* of it ends the call before hasMinTotalWidth is reset.
Joined(made) ==
  /\ modifierContexts' = made.contexts
  /\ hasMinTotalWidth' = IF made.result.err = "none" THEN FALSE ELSE hasMinTotalWidth
  /\ result' = IF made.result.err = "none" THEN Returned("this", 0) ELSE made.result

\* joinVoices(voices)
JoinVoices(vs) ==
  /\ Idle
  /\ Joined(createModifierContexts(vs, modifierContexts, voiceStave))
  /\ Begin("joinVoices", vs, 0, "none")
  /\ frame' = IdleFrame
  /\ history' = [history EXCEPT
                   !.completedSinceJoin = IF result'.err = "none" THEN FALSE ELSE @]
  /\ UNCHANGED <<minTotalWidth, tickContexts, voices, justifyWidth, maxIterations,
                 voiceStave, evaluation, attached>>

\* The contexts of the voices after createTickContexts, made being its
\* outcome: an empty list and an error leave them as they are.
attachedAfter(vs, made) ==
  IF Len(vs) = 0 \/ made.result.err # "none" THEN attached
  ELSE attachTo(attached, tickContexts, vs)

\* The Formatter after createTickContexts, made being its outcome.
Created(vs, made) ==
  /\ tickContexts' = made.contexts
  /\ attached' = attachedAfter(vs, made)
  /\ result' = made.result

\* createTickContexts(voices)
CreateTickContexts(vs) ==
  /\ Idle
  /\ Created(vs, createTickContexts(vs, tickContexts))
  /\ Begin("createTickContexts", vs, 0, "none")
  /\ frame' = IdleFrame
  /\ history' = [history EXCEPT !.createTickContextsRan = TRUE]
  /\ UNCHANGED <<hasMinTotalWidth, minTotalWidth, modifierContexts, voices,
                 justifyWidth, maxIterations, voiceStave, evaluation>>

\* Formatter.getResolutionMultiplier(voices)
GetResolutionMultiplier(vs) ==
  /\ Idle
  /\ result' = getResolutionMultiplier(vs)
  /\ Begin("getResolutionMultiplier", vs, 0, "none")
  /\ frame' = IdleFrame
  /\ UNCHANGED history
  /\ UNCHANGED <<hasMinTotalWidth, minTotalWidth, tickContexts, modifierContexts,
                 voices, justifyWidth, maxIterations, voiceStave, evaluation,
                 attached>>

\* alignRests(voices, alignAllNotes); the voices of the model hold no rests.
AlignRests(vs) ==
  /\ Idle
  /\ result' = IF Len(vs) = 0 THEN Raised("BadArgument") ELSE Returned("void", 0)
  /\ Begin("alignRests", vs, 0, "none")
  /\ frame' = IdleFrame
  /\ UNCHANGED history
  /\ UNCHANGED <<hasMinTotalWidth, minTotalWidth, tickContexts, modifierContexts,
                 voices, justifyWidth, maxIterations, voiceStave, evaluation,
                 attached>>

\* getTickContexts(): the contexts held, or undefined when none is held.
GetTickContexts ==
  /\ Idle
  /\ result' = IF tickContexts.defined
               THEN Returned("AlignmentTickContexts", Len(tickContexts.list))
               ELSE Returned("undefined", 0)
  /\ Begin("getTickContexts", <<>>, 0, "none")
  /\ frame' = IdleFrame
  /\ UNCHANGED history
  /\ UNCHANGED <<hasMinTotalWidth, minTotalWidth, tickContexts, modifierContexts,
                 voices, justifyWidth, maxIterations, voiceStave, evaluation,
                 attached>>

\* getMinTotalWidth()
GetMinTotalWidth ==
  /\ Idle
  /\ result' = IF ~hasMinTotalWidth THEN Raised("NoMinTotalWidth")
               ELSE Returned("number", minTotalWidth)
  /\ Begin("getMinTotalWidth", <<>>, 0, "none")
  /\ frame' = IdleFrame
  /\ UNCHANGED history
  /\ UNCHANGED <<hasMinTotalWidth, minTotalWidth, tickContexts, modifierContexts,
                 voices, justifyWidth, maxIterations, voiceStave, evaluation,
                 attached>>

\* The width is stored and returned.
WidthCalculated(width) ==
  /\ tickContexts' = width.contexts
  /\ minTotalWidth' = width.minTotalWidth
  /\ hasMinTotalWidth' = TRUE
  /\ result' = width.result
  /\ history' = [history EXCEPT
                   !.createTickContextsRan = TRUE, !.completedSinceJoin = TRUE]

\* preCalculateMinTotalWidth after createTickContexts, made being its
\* outcome, an error of which ends the call.
Calculated(vs, made) ==
  IF made.result.err # "none"
  THEN /\ result' = made.result
       /\ history' = [history EXCEPT !.createTickContextsRan = TRUE]
       /\ UNCHANGED <<hasMinTotalWidth, minTotalWidth, tickContexts, attached>>
  ELSE /\ WidthCalculated(preCalculateMinTotalWidth(vs, made.contexts))
       /\ attached' = attachedAfter(vs, made)

\* preCalculateMinTotalWidth(voices)
PreCalculateMinTotalWidth(vs) ==
  /\ Idle
  /\ Begin("preCalculateMinTotalWidth", vs, 0, "none")
  /\ frame' = IdleFrame
  /\ IF hasMinTotalWidth
     THEN /\ result' = Returned("number", minTotalWidth)
          /\ history' = [history EXCEPT !.completedSinceJoin = TRUE]
          /\ UNCHANGED <<hasMinTotalWidth, minTotalWidth, tickContexts, attached>>
     ELSE Calculated(vs, createTickContexts(vs, tickContexts))
  /\ UNCHANGED <<modifierContexts, voices, justifyWidth, maxIterations, voiceStave,
                 evaluation>>

\* The outcome of the call of evaluate at the end of preFormat, which runs
\* on a lossHistory that preFormat has emptied.
preFormatEvaluate(contexts, vs, width, att) ==
  evaluate([evaluation EXCEPT !.lossHistory = <<>>], contexts, vs, width, att)

\* The contexts at the end of preFormat: evaluate has set their freedom
\* when the call ends in it.
contextsLeft(start) ==
  IF start.phase = "evaluate" THEN evaluateFreedom(start.contexts) ELSE start.contexts

\* What a preFormat call that starts from the contexts in held leaves when it
\* does not enter its loop or enters it, outcome being what evaluate gives
\* when the call ends in it; postFormat runs when the call came from format
\* with a stave.
PreFormatted(start, caller, stave, past, outcome) ==
  /\ hasMinTotalWidth' = (hasMinTotalWidth \/ start.widthKnown)
  /\ minTotalWidth' = IF start.widthKnown THEN start.minTotalWidth ELSE minTotalWidth
  /\ frame' = start.frame
  /\ evaluation' = CASE start.error = "NoTickContexts" -> evaluation
                      [] start.phase = "evaluate" -> outcome.evaluation
                      [] OTHER -> [evaluation EXCEPT !.lossHistory = <<>>]
  /\ result' = CASE start.phase = "raised" -> Raised(start.error)
                  [] start.phase = "loop" -> Running
                  [] start.phase = "zero" ->
                       IF caller = "format" THEN Returned("this", 0)
                       ELSE Returned("number", 0)
                  [] outcome.result.err # "none" -> outcome.result
                  [] caller = "format" -> Returned("this", 0)
                  [] OTHER -> outcome.result
  /\ history' = [past EXCEPT
                   !.completedSinceJoin =
                      @ \/ (start.phase \in {"evaluate", "zero"} /\ result'.err = "none"),
                   !.order = IF caller = "format" /\ stave # "none" /\ result'.kind = "this"
                             THEN <<"preFormat", "postFormat">> ELSE <<"preFormat">>]
  /\ IF caller = "format" /\ stave # "none" /\ result'.kind = "this"
     THEN /\ tickContexts' = postFormatTicks(contextsLeft(start))
          /\ modifierContexts' = postFormatModifiers(modifierContexts)
     ELSE /\ tickContexts' = contextsLeft(start)
          /\ UNCHANGED modifierContexts
  /\ UNCHANGED justifyWidth

PreFormatFrom(held, width, caller, stave, past, vs, att) ==
  PreFormatted(preFormatStart(held, width, caller, stave, maxIterations),
               caller, stave, past,
               preFormatEvaluate(passOne(held, 1, 0, 0).contexts, vs, justifyWidth, att))

\* preFormat(justifyWidth), called without voices and stave
PreFormat(width) ==
  /\ Idle
  /\ Begin("preFormat", <<>>, width, "none")
  /\ PreFormatFrom(tickContexts, width, "preFormat", "none", history, voices, attached)
  /\ UNCHANGED <<voices, maxIterations, voiceStave, attached>>

\* format from alignRests on, made being the outcome of createTickContexts:
\* alignRests raises on an empty list, an error of createTickContexts ends
\* the call, and otherwise preFormat runs on the contexts made.
Formatted(vs, width, stave, made) ==
  IF Len(vs) = 0 \/ made.result.err # "none"
  THEN /\ result' = IF Len(vs) = 0 THEN Raised("BadArgument") ELSE made.result
       /\ frame' = IdleFrame
       /\ history' = [history EXCEPT !.createTickContextsRan = @ \/ Len(vs) > 0,
                                     !.order = <<>>]
       /\ UNCHANGED <<hasMinTotalWidth, minTotalWidth, tickContexts,
                      modifierContexts, justifyWidth, voiceStave, evaluation>>
  ELSE /\ voiceStave' = IF stave # "none" THEN setStave(vs, stave, voiceStave)
                        ELSE voiceStave
       /\ PreFormatFrom(made.contexts, width, "format", stave,
                        [history EXCEPT !.createTickContextsRan = TRUE],
                        vs, attachedAfter(vs, made))

\* format(voices, justifyWidth, {stave}), called as name with the stave
\* supplied.
FormatAs(name, vs, width, supplied, stave) ==
  /\ Idle
  /\ Begin(name, vs, width, supplied)
  /\ voices' = vs
  /\ attached' = attachedAfter(vs, createTickContexts(vs, tickContexts))
  /\ Formatted(vs, width, stave, createTickContexts(vs, tickContexts))
  /\ UNCHANGED maxIterations

\* format(voices, justifyWidth, {stave})
Format(vs, width, stave) == FormatAs("format", vs, width, stave, stave)

\* formatToStave(voices, stave, {stave: optionStave}): the stave gives the
\* width and the rendering context, and the options go on to format.
FormatToStave(vs, stave, optionStave) ==
  FormatAs("formatToStave", vs,
           getNoteEndX(stave) - getNoteStartX(stave) - defaultPadding,
           stave, optionStave)

\* Formatter.SimpleFormat(notes, x, options), notes being the tickables of
\* voice v and options <<>> or <<paddingBetween>>: every note is added to a tick context of its own, which holds
\* its x from then on.
SimpleFormat(v, x, options) ==
  /\ Idle
  /\ call' = [op |-> "SimpleFormat", voices |-> <<v>>, justifyWidth |-> 0,
               stave |-> "none", x |-> x, options |-> options]
  /\ calls' = calls + 1
  /\ attached' = [attached EXCEPT
                    ![v] = [to |-> "left",
                            x |-> simpleFormatFrom(notesOfVoice(v), 1, x,
                                                   paddingBetweenOf(options))]]
  /\ result' = Returned("void", 0)
  /\ frame' = IdleFrame
  /\ UNCHANGED <<hasMinTotalWidth, minTotalWidth, tickContexts, modifierContexts,
                 voices, justifyWidth, maxIterations, voiceStave, history, evaluation>>
  /\ UNCHANGED <<accVars, staveVars>>

\* The Formatter after evaluate, outcome being what it gives.
EvaluatedTo(outcome) ==
  /\ evaluation' = outcome.evaluation
  /\ result' = outcome.result

\* evaluate()
Evaluate ==
  /\ Idle
  /\ Begin("evaluate", <<>>, 0, "none")
  /\ EvaluatedTo(evaluate(evaluation, tickContexts, voices, justifyWidth, attached))
  /\ tickContexts' = evaluateFreedom(tickContexts)
  /\ frame' = IdleFrame
  /\ UNCHANGED history
  /\ UNCHANGED <<hasMinTotalWidth, minTotalWidth, modifierContexts,
                 voices, justifyWidth, maxIterations, voiceStave, attached>>

(***************************************************************************)
(* Formatter.tune.  alpha is a fraction <<numerator, denominator>>.        *)
(***************************************************************************)
DefaultAlpha == <<1, 2>>

\* options?.alpha ?? 0.5
alphaOf(options) == IF options = <<>> THEN DefaultAlpha ELSE options[1]

\* context.move(shift, prevContext, nextContext) on context k of the list.
move(contexts, k, shift) ==
  [contexts EXCEPT !.map =
     [t \in DOMAIN contexts.map |->
        IF t = contexts.list[k]
        THEN [contexts.map[t] EXCEPT !.x = @ + shift,
                                     !.freedom = [left |-> @.left + shift,
                                                  right |-> @.right - shift]]
        ELSE IF k > 1 /\ t = contexts.list[k - 1]
        THEN [contexts.map[t] EXCEPT !.freedom.right = @ + shift]
        ELSE IF k < Len(contexts.list) /\ t = contexts.list[k + 1]
        THEN [contexts.map[t] EXCEPT !.freedom.left = @ - shift]
        ELSE contexts.map[t]]]

\* context.getDeviationCost(): the deviations of the tickables of context k.
getDeviationCost(contexts, metrics, k) ==
  sumArray([i \in 1..Len(contextAt(contexts, k).tickables) |->
              spaceOf(metrics, contextAt(contexts, k).tickables[i]).deviation])

\* shift *= alpha
timesAlpha(shift, alpha) ==
  IF shift >= 0 THEN (shift * alpha[1]) \div alpha[2]
  ELSE -(((-shift) * alpha[1]) \div alpha[2])

\* The shift after context k, before it is multiplied by alpha: it stays as
\* it is when the cost of the context is 0.
shiftAfter(moved, k, cost, shift) ==
  IF cost > 0 THEN -Min(contextAt(moved, k).freedom.right, Abs(cost))
  ELSE IF cost < 0
  THEN (IF k < Len(moved.list) THEN Min(contextAt(moved, k + 1).freedom.right, Abs(cost))
        ELSE 0)
  ELSE shift

\* contexts.list.forEach from context k on: the contexts moved, and totalShift.
RECURSIVE tuneFrom(_, _, _, _, _, _)
tuneFrom(contexts, metrics, alpha, k, shift, totalShift) ==
  IF k > Len(contexts.list) THEN [contexts |-> contexts, totalShift |-> totalShift]
  ELSE CHOOSE end \in
         {tuneFrom(moved, metrics, alpha, k + 1, next, totalShift + next) :
            moved \in {move(contexts, k, shift)},
            next \in {timesAlpha(shiftAfter(move(contexts, k, shift), k,
                                            -getDeviationCost(contexts, metrics, k), shift),
                                 alpha)}} : TRUE

\* tune from its last line on: return this.evaluate()
Tuned(tuned, outcome) ==
  /\ tickContexts' = evaluateFreedom(tuned.contexts)
  /\ evaluation' = [outcome.evaluation EXCEPT !.totalShift = tuned.totalShift]
  /\ result' = outcome.result

\* tune(options)
Tune(options) ==
  /\ Idle
  /\ call' = [op |-> "tune", voices |-> <<>>, justifyWidth |-> 0, stave |-> "none",
              alpha |-> alphaOf(options)]
  /\ calls' = calls + 1
  /\ \E tuned \in {tuneFrom(tickContexts, evaluation.metrics, alphaOf(options), 1, 0, 0)} :
       \E outcome \in {evaluate([evaluation EXCEPT !.totalShift = tuned.totalShift],
                                 tuned.contexts, voices, justifyWidth, attached)} :
         Tuned(tuned, outcome)
  /\ frame' = IdleFrame
  /\ UNCHANGED history
  /\ UNCHANGED <<hasMinTotalWidth, minTotalWidth, modifierContexts,
                 voices, justifyWidth, maxIterations, voiceStave, attached>>
  /\ UNCHANGED <<accVars, staveVars>>

\* The locals and the contexts at the end of a pass.
Passed(targetWidth, paddingMax, shifted) ==
  /\ tickContexts' = shifted
  /\ frame' = [frame EXCEPT
                 !.targetWidth = targetWidth,
                 !.paddingMax = paddingMax,
                 !.paddingMin = paddingMax - (Px(StaveEndPaddingMax)
                                                - Px(StaveEndPaddingMin)),
                 !.actualWidth = actualWidthOf(shifted),
                 !.iterations = @ - 1,
                 !.passes = @ + 1]

\* The body of the loop for the target width of the pass.
PassTo(targetWidth) ==
  \E paddingMax \in {paddingMaxCalc(tickContexts, targetWidth, frame.minDistance)},
     distances \in {calculateIdealDistances(tickContexts, targetWidth)} :
    \E shifted \in {shiftToIdealDistances(tickContexts, distances)} :
      Passed(targetWidth, paddingMax, shifted)

\* One pass of the loop of preFormat.
JustifyPass ==
  /\ frame.active
  /\ loopCondition(frame)
  /\ \E targetWidth \in {frame.targetWidth - (frame.actualWidth - frame.maxX)} :
       PassTo(targetWidth)
  /\ UNCHANGED <<hasMinTotalWidth, minTotalWidth, modifierContexts, voices,
                 justifyWidth, maxIterations, voiceStave, call, result, calls,
                 history, evaluation, attached>>
  /\ UNCHANGED <<accVars, staveVars>>

\* The Formatter at the end of preFormat, outcome being what evaluate gives:
\* format goes on to postFormat when it was given a stave.
JustifyEnded(outcome) ==
  /\ evaluation' = outcome.evaluation
  /\ result' = IF frame.caller = "format" /\ outcome.result.err = "none"
               THEN Returned("this", 0) ELSE outcome.result
  /\ history' = [history EXCEPT
                   !.completedSinceJoin = @ \/ outcome.result.err = "none",
                   !.order = IF frame.caller = "format" /\ frame.stave # "none"
                                  /\ outcome.result.err = "none"
                             THEN Append(@, "postFormat") ELSE @]
  /\ IF frame.caller = "format" /\ frame.stave # "none" /\ outcome.result.err = "none"
     THEN /\ tickContexts' = postFormatTicks(evaluateFreedom(tickContexts))
          /\ modifierContexts' = postFormatModifiers(modifierContexts)
     ELSE /\ tickContexts' = evaluateFreedom(tickContexts)
          /\ UNCHANGED modifierContexts

\* The loop ends: preFormat stores the width and returns evaluate().
JustifyEnd ==
  /\ frame.active
  /\ ~loopCondition(frame)
  /\ justifyWidth' = frame.justifyWidth
  /\ frame' = [frame EXCEPT !.active = FALSE]
  /\ \E outcome \in {evaluate(evaluation, tickContexts, voices, frame.justifyWidth, attached)} :
       JustifyEnded(outcome)
  /\ UNCHANGED <<hasMinTotalWidth, minTotalWidth, voices, maxIterations, voiceStave,
                 call, calls, attached>>
  /\ UNCHANGED <<accVars, staveVars>>

(***************************************************************************)
(* Accidental.format: the columns of the accidentals of one modifier       *)
(* context.  Lines are counted in half lines: line 2.5 is 5, and the       *)
(* clearances 2.5 and 3.0 are 5 and 6.                                     *)
(***************************************************************************)
\* Tables.accidentalColumnsTable (tables.ts)
accidentalColumnsTable == <<
  [a |-> <<1>>, b |-> <<1>>],
  [a |-> <<1, 2>>],
  [a |-> <<1, 3, 2>>, b |-> <<1, 2, 1>>, secondOnBottom |-> <<1, 2, 3>>],
  [a |-> <<1, 3, 4, 2>>, b |-> <<1, 2, 3, 1>>, spacedOutTetrachord |-> <<1, 2, 1, 2>>],
  [a |-> <<1, 3, 5, 4, 2>>, b |-> <<1, 2, 4, 3, 1>>,
   spacedOutPentachord |-> <<1, 2, 3, 2, 1>>,
   verySpacedOutPentachord |-> <<1, 2, 1, 2, 1>>],
  [a |-> <<1, 3, 5, 6, 4, 2>>, b |-> <<1, 2, 4, 5, 3, 1>>,
   spacedOutHexachord |-> <<1, 3, 2, 1, 3, 2>>,
   verySpacedOutHexachord |-> <<1, 2, 1, 2, 1, 2>>]
>>

\* Metrics.get('Accidental.noteheadAccidentalPadding'), accidentalSpacing
\* and leftPadding, in pixels.
NoteheadAccidentalPadding == 1
AccidentalSpacing == 3
AccidentalLeftPadding == 2

\* accidental.getWidth(): the width of the glyph of its type.
accidentalWidth(type) ==
  CASE type = "#" -> Px(8)
    [] type = "b" -> Px(7)
    [] type = "##" -> Px(9)
    [] OTHER -> Px(8)

\* accidentalLinePositionsAndSpaceNeeds.sort((a, b) => b.line - a.line): a
\* stable sort, highest line first.
RECURSIVE SortByLineDescending(_)
SortByLineDescending(s) ==
  IF Len(s) = 0 THEN <<>>
  ELSE LET m == CHOOSE i \in DOMAIN s :
                  /\ \A j \in DOMAIN s : s[i].line >= s[j].line
                  /\ \A j \in 1..(i - 1) : s[j].line < s[i].line
       IN  <<s[m]>> \o SortByLineDescending([j \in 1..(Len(s) - 1) |->
                                               IF j < m THEN s[j] ELSE s[j + 1]])

\* The loop that makes one entry per line out of the sorted accidentals,
\* from accidental k on.
RECURSIVE CollectLineMetrics(_, _, _)
CollectLineMetrics(sorted, k, acc) ==
  IF k > Len(sorted) THEN acc
  ELSE LET accidental == sorted[k]
           new == acc = <<>> \/ acc[Len(acc)].line # accidental.line
           acc1 == IF new
                   THEN Append(acc, [line |-> accidental.line, flatLine |-> TRUE,
                                     dblSharpLine |-> TRUE, numAcc |-> 0, width |-> 0,
                                     column |-> 0])
                   ELSE acc
           current == acc1[Len(acc1)]
           current1 == [current EXCEPT
                          !.flatLine = @ /\ accidental.type \in {"b", "bb"},
                          !.dblSharpLine = @ /\ accidental.type = "##",
                          !.numAcc = @ + 1,
                          !.width = @ + accidentalWidth(accidental.type)
                                      + Px(AccidentalSpacing)]
       IN  CollectLineMetrics(sorted, k + 1, [acc1 EXCEPT ![Len(acc1)] = current1])

\* Accidental.checkCollision(line1, line2)
checkCollision(line1, line2) ==
  LET clearance == line2.line - line1.line
      clearanceRequired ==
        IF clearance > 0
        THEN (IF line2.flatLine \/ line2.dblSharpLine THEN 5 ELSE 6)
        ELSE (IF line1.flatLine \/ line1.dblSharpLine THEN 5 ELSE 6)
      reduced ==
        IF clearance > 0
        THEN (IF line1.dblSharpLine THEN clearance - 1 ELSE clearance)
        ELSE (IF line2.dblSharpLine THEN clearance - 1 ELSE clearance)
  IN  Abs(reduced) < clearanceRequired

\* The while loop that finds the end of the group that starts at groupStart.
RECURSIVE findGroupEnd(_, _)
findGroupEnd(lines, groupEnd) ==
  IF groupEnd + 1 <= Len(lines) /\ checkCollision(lines[groupEnd], lines[groupEnd + 1])
  THEN findGroupEnd(lines, groupEnd + 1)
  ELSE groupEnd

\* notColliding(...indexPairs), with the indexes relative to the group (from 0).
notColliding(lines, groupStart, indexPairs) ==
  \A pair \in indexPairs :
     ~checkCollision(lines[groupStart + pair[1]], lines[groupStart + pair[2]])

\* lineDifference(indexA, indexB), in half lines.
lineDifference(lines, groupStart, indexA, indexB) ==
  lines[groupStart + indexA].line - lines[groupStart + indexB].line

\* The layout chosen for a group of fewer than seven lines.
endCaseOf(lines, groupStart, groupEnd) ==
  LET groupLength == groupEnd - groupStart + 1
      endCase == IF checkCollision(lines[groupStart], lines[groupEnd]) THEN "a" ELSE "b"
  IN  CASE groupLength = 3 ->
             IF /\ endCase = "a"
                /\ lineDifference(lines, groupStart, 1, 2) = 1
                /\ lineDifference(lines, groupStart, 0, 1) # 1
             THEN "secondOnBottom" ELSE endCase
        [] groupLength = 4 ->
             IF notColliding(lines, groupStart, {<<0, 2>>, <<1, 3>>})
             THEN "spacedOutTetrachord" ELSE endCase
        [] groupLength = 5 ->
             IF endCase = "b" /\ notColliding(lines, groupStart, {<<1, 3>>})
             THEN (IF notColliding(lines, groupStart, {<<0, 2>>, <<2, 4>>})
                   THEN "verySpacedOutPentachord" ELSE "spacedOutPentachord")
             ELSE endCase
        [] groupLength = 6 ->
             IF notColliding(lines, groupStart, {<<0, 2>>, <<2, 4>>, <<1, 3>>, <<3, 5>>})
             THEN "verySpacedOutHexachord"
             ELSE IF notColliding(lines, groupStart, {<<0, 3>>, <<1, 4>>, <<2, 5>>})
             THEN "spacedOutHexachord" ELSE endCase
        [] OTHER -> endCase

\* findPatternLength with the last line left out of the search.
RECURSIVE findPatternLengthShort(_, _)
findPatternLengthShort(lines, patternLength) ==
  IF \E line \in 1..(Len(lines) - patternLength - 1) :
       checkCollision(lines[line], lines[line + patternLength])
  THEN findPatternLengthShort(lines, patternLength + 1)
  ELSE patternLength

\* The number of columns of the parallel pattern: raised from patternLength
\* while some line collides with the line patternLength entries further down.
RECURSIVE findPatternLength(_, _)
findPatternLength(lines, patternLength) ==
  IF \E line \in 1..(Len(lines) - patternLength) :
       checkCollision(lines[line], lines[line + patternLength])
  THEN findPatternLength(lines, patternLength + 1)
  ELSE patternLength

\* The loop over the groups, from line i on: the lines of the group that
\* starts at i get their columns, from the parallel pattern when the group
\* has seven lines or more and from the table otherwise.
RECURSIVE placeInColumns(_, _)
placeInColumns(lines, i) ==
  IF i > Len(lines) THEN lines
  ELSE LET groupEnd == findGroupEnd(lines, i)
           groupLength == groupEnd - i + 1
           endCase == endCaseOf(lines, i, groupEnd)
           patternLength == findPatternLength(lines, 2)
           placed == [groupMember \in DOMAIN lines |->
                        IF groupMember < i \/ groupMember > groupEnd
                        THEN lines[groupMember]
                        ELSE [lines[groupMember] EXCEPT !.column =
                                IF groupLength >= 7
                                THEN ((groupMember - i) % patternLength) + 1
                                ELSE accidentalColumnsTable[groupLength][endCase]
                                       [groupMember - i + 1]]]
       IN  placeInColumns(placed, groupEnd + 1)

\* The lines of Accidental.format(accidentals, state), with their columns.
accidentalFormat(list) ==
  placeInColumns(CollectLineMetrics(SortByLineDescending(list), 1, <<>>), 1)

\* extraXSpaceNeeded of accidental i: the largest left displacement of the
\* note heads of the notes met up to it.
extraXSpaceNeeded(list, i) == MaxOf({0} \cup {list[j].extra : j \in 1..i})

maxExtraXSpaceNeeded(list) ==
  MaxOf({0} \cup {extraXSpaceNeeded(list, i) : i \in DOMAIN list})

totalColumns(lines) == MaxOf({lines[k].column : k \in DOMAIN lines})

\* columnWidths[c] with the width of the lines left out of it.
columnWidthOfNone(lines, leftShift, maxExtra, c) ==
  IF c = 0 THEN leftShift + maxExtra ELSE 0

\* columnWidths[c]: column 0 is the shift the accidentals start from, every
\* other column is as wide as the widest line in it.
columnWidth(lines, leftShift, maxExtra, c) ==
  IF c = 0 THEN leftShift + maxExtra
  ELSE MaxOf({lines[k].width : k \in {h \in DOMAIN lines : lines[h].column = c}})

\* columnXOffsets[c]
RECURSIVE columnXOffset(_, _, _, _)
columnXOffset(lines, leftShift, maxExtra, c) ==
  IF c = 0 THEN leftShift
  ELSE columnWidth(lines, leftShift, maxExtra, c)
         + columnXOffset(lines, leftShift, maxExtra, c - 1)

\* lineWidth when the loop reaches the accidental at place p of the sorted
\* list: the widths and spacings of the accidentals before it on its line.
lineWidthBefore(sorted, p) ==
  sumArray([q \in 1..(p - 1) |->
              IF sorted[q].line = sorted[p].line
              THEN accidentalWidth(sorted[q].type) + Px(AccidentalSpacing) ELSE 0])

\* The line of the accidental at place p of the sorted list.
lineOfPlace(sorted, lines, p) ==
  lines[CHOOSE k \in DOMAIN lines : lines[k].line = sorted[p].line]

\* The xShift the accidental at place p of the sorted list is given.
xShiftAt(sorted, lines, leftShift, maxExtra, p) ==
  columnXOffset(lines, leftShift, maxExtra, lineOfPlace(sorted, lines, p).column - 1)
    + lineWidthBefore(sorted, p) + maxExtra

\* The accidentals, each with the place it had in the list.
withIndex(list) ==
  [i \in DOMAIN list |->
     [line |-> list[i].line, type |-> list[i].type, extra |-> list[i].extra,
      xShift |-> list[i].xShift, index |-> i]]

\* accidental.setXShift(xShift) for every accidental of the list.
setXShifts(list, sorted, lines, leftShift, maxExtra) ==
  [i \in DOMAIN list |->
     [list[i] EXCEPT !.xShift =
        xShiftAt(sorted, lines, leftShift, maxExtra,
                 CHOOSE p \in DOMAIN sorted : sorted[p].index = i)]]

\* state.leftShift left at totalShift, without the padding.
leftShiftAfterUnpadded(lines, leftShift, maxExtra) ==
  columnXOffset(lines, leftShift, maxExtra, totalColumns(lines))

\* state.leftShift = totalShift + additionalPadding
leftShiftAfter(lines, leftShift, maxExtra) ==
  columnXOffset(lines, leftShift, maxExtra, totalColumns(lines))
    + Px(AccidentalLeftPadding)

(***************************************************************************)
(* Accidental.applyAccidentals.  A key is the key string of a note in its  *)
(* parts: root, accidental as written ("" when none) and octave.  Ticks    *)
(* are counted in quarter notes.                                           *)
(***************************************************************************)
Key(root, accidental, octave) ==
  [root |-> root, accidental |-> accidental, octave |-> octave]

\* new StaveNote({keys, duration}), a rest or not, without modifiers.
StaveNote(keys, ticks, rest) ==
  [keys |-> keys, ticks |-> ticks, rest |-> rest, modifiers |-> <<>>]

\* No voice holds a note, and applyAccidentals has not been called.
NoScore == [voices |-> <<<<>>, <<>>>>, applied |-> 0, keySignature |-> "", order |-> <<>>]

\* music.createScaleMap(keySignature): the pitch of each root in the key.
createScaleMap(keySignature) ==
  [root \in {"c", "f"} |->
     IF keySignature = "G" /\ root = "f" THEN <<"f", "#">> ELSE <<root, "n">>]

\* The tick at which note k of a voice starts.
RECURSIVE tickPositionOf(_, _)
tickPositionOf(notes, k) ==
  IF k = 1 THEN 0 ELSE tickPositionOf(notes, k - 1) + notes[k - 1].ticks

\* The notes of the voices from voice i on, in the order the two forEach
\* loops meet them, each with its tick position.
RECURSIVE notesMet(_, _)
notesMet(vs, i) ==
  IF i > Len(vs) THEN <<>>
  ELSE [k \in 1..Len(vs[i]) |->
          [voice |-> i, index |-> k, tick |-> tickPositionOf(vs[i], k)]]
         \o notesMet(vs, i + 1)

\* tickPositions: every tick position once, in the order it was first met.
RECURSIVE tickPositionsOf(_, _, _)
tickPositionsOf(met, k, acc) ==
  IF k > Len(met) THEN acc
  ELSE tickPositionsOf(met, k + 1,
                       IF met[k].tick \in Range(acc) THEN acc ELSE Append(acc, met[k].tick))

\* tickNoteMap[tickPos]: the notes met at a tick position, in the order met.
RECURSIVE notesAtPosition(_, _, _)
notesAtPosition(met, tickPos, k) ==
  IF k > Len(met) THEN <<>>
  ELSE (IF met[k].tick = tickPos THEN <<met[k]>> ELSE <<>>)
         \o notesAtPosition(met, tickPos, k + 1)

\* staveNote.getModifiers().forEach with splice: the accidentals of the
\* type and the key are removed from place i on; after a removal the
\* forEach goes on with the place after the one that has moved up.
RECURSIVE removeAccidentals(_, _, _, _)
removeAccidentals(modifiers, i, type, keyIndex) ==
  IF i > Len(modifiers) THEN modifiers
  ELSE IF modifiers[i].type = type /\ modifiers[i].index = keyIndex
  THEN removeAccidentals([j \in 1..(Len(modifiers) - 1) |->
                            IF j < i THEN modifiers[j] ELSE modifiers[j + 1]],
                         i + 1, type, keyIndex)
  ELSE removeAccidentals(modifiers, i + 1, type, keyIndex)

\* key.accidental || 'n'
accidentalStringOf(key) == IF key.accidental = "" THEN "n" ELSE key.accidental

\* The scale map with the state of the root and octave of a key seeded from
\* the key signature when it holds none.
seeded(scaleMap, scaleMapKey, key) ==
  IF <<key.root, key.octave>> \in DOMAIN scaleMap THEN scaleMap
  ELSE (<<key.root, key.octave>> :> scaleMapKey[key.root]) @@ scaleMap

\* An accidental for every key that comes before an identical one at the
\* same tick, whatever the state of its pitch.
addsAccidentalAlways(scaleMap, modifiedPitches, key) == TRUE

\* !sameAccidental || (sameAccidental && previouslyModified)
addsAccidental(scaleMap, modifiedPitches, key) ==
  \/ scaleMap[<<key.root, key.octave>>] # <<key.root, accidentalStringOf(key)>>
  \/ key \in Range(modifiedPitches)

\* The body of staveNote.keys.forEach for key keyIndex of note ref, w being
\* the voices, the scale map, the modified pitches and the order so far.
processKey(w, scaleMapKey, ref, keyIndex, key, adds) ==
  [voices |->
     [w.voices EXCEPT ![ref.voice][ref.index].modifiers =
        IF adds
        THEN Append(removeAccidentals(@, 1, accidentalStringOf(key), keyIndex),
                    [type |-> accidentalStringOf(key), index |-> keyIndex])
        ELSE removeAccidentals(@, 1, accidentalStringOf(key), keyIndex)],
   scaleMap |->
     IF adds
     THEN [seeded(w.scaleMap, scaleMapKey, key) EXCEPT
             ![<<key.root, key.octave>>] = <<key.root, accidentalStringOf(key)>>]
     ELSE seeded(w.scaleMap, scaleMapKey, key),
   modifiedPitches |-> IF adds THEN Append(w.modifiedPitches, key) ELSE w.modifiedPitches,
   order |-> Append(w.order, [voice |-> ref.voice, index |-> ref.index,
                              keyIndex |-> keyIndex, tick |-> ref.tick, key |-> key,
                              added |-> adds])]

\* staveNote.keys.forEach from key keyIndex on.
RECURSIVE processKeys(_, _, _, _)
processKeys(w, scaleMapKey, ref, keyIndex) ==
  IF keyIndex > Len(w.voices[ref.voice][ref.index].keys) THEN w
  ELSE CHOOSE next \in
         {processKeys(after, scaleMapKey, ref, keyIndex + 1) :
            after \in {processKey(w, scaleMapKey, ref, keyIndex, key,
                                  addsAccidental(seeded(w.scaleMap, scaleMapKey, key),
                                                 w.modifiedPitches, key)) :
                         key \in {w.voices[ref.voice][ref.index].keys[keyIndex]}}} : TRUE

\* processNote: a rest is passed over.
processNote(w, scaleMapKey, ref) ==
  IF w.voices[ref.voice][ref.index].rest THEN w
  ELSE processKeys(w, scaleMapKey, ref, 1)

\* tickables.forEach(processNote) from note k of the tick position on.
RECURSIVE processNotes(_, _, _, _)
processNotes(w, scaleMapKey, notes, k) ==
  IF k > Len(notes) THEN w
  ELSE CHOOSE next \in
         {processNotes(after, scaleMapKey, notes, k + 1) :
            after \in {processNote(w, scaleMapKey, notes[k])}} : TRUE

\* tickPositions.forEach from position p on: the pitches modified are
\* counted anew at every tick position.
RECURSIVE processPositions(_, _, _, _, _)
processPositions(w, scaleMapKey, met, tickPositions, p) ==
  IF p > Len(tickPositions) THEN w
  ELSE CHOOSE next \in
         {processPositions(after, scaleMapKey, met, tickPositions, p + 1) :
            after \in {processNotes([w EXCEPT !.modifiedPitches = <<>>], scaleMapKey,
                                    notesAtPosition(met, tickPositions[p], 1), 1)}} : TRUE

\* Accidental.applyAccidentals(voices, keySignature): the voices
\* afterwards, and the keys in the order they were gone through.
applyAccidentals(vs, keySignature) ==
  processPositions([voices |-> vs, scaleMap |-> <<>>, modifiedPitches |-> <<>>,
                    order |-> <<>>],
                   createScaleMap(IF keySignature = "" THEN "C" ELSE keySignature),
                   notesMet(vs, 1), tickPositionsOf(notesMet(vs, 1), 1, <<>>), 1)

\* The notes the voices are made of.
NoteKeys ==
  {<<Key("c", "", 4)>>, <<Key("c", "#", 4)>>, <<Key("c", "#", 5)>>, <<Key("f", "", 4)>>,
   <<Key("c", "#", 4), Key("c", "#", 4)>>}

\* voice.addTickable(note), with a note of one or two quarters, a rest or not.
AddNote(v, keys, ticks, rest) ==
  /\ score.applied = 0
  /\ Len(score.voices[v]) < MaxNotes
  /\ score' = [score EXCEPT !.voices[v] = Append(@, StaveNote(keys, ticks, rest))]
  /\ UNCHANGED <<accidentals, lineMetrics, accidentalsFormatted, state>>
  /\ UNCHANGED <<fmtVars, staveVars>>

\* The score after applyAccidentals, applied being what it leaves.
Applied(keySignature, applied) ==
  score' = [voices |-> applied.voices, applied |-> score.applied + 1,
            keySignature |-> keySignature, order |-> applied.order]

\* Accidental.applyAccidentals(voices, keySignature), a second time with the
\* key signature of the first.
ApplyAccidentals(keySignature) ==
  /\ score.applied < 2
  /\ score.applied = 1 => keySignature = score.keySignature
  /\ \E applied \in {applyAccidentals(score.voices, keySignature)} :
       Applied(keySignature, applied)
  /\ UNCHANGED <<accidentals, lineMetrics, accidentalsFormatted, state>>
  /\ UNCHANGED <<fmtVars, staveVars>>

\* No accidental has been attached yet.
NoAccidentals ==
  /\ accidentals = <<>>
  /\ lineMetrics = <<>>
  /\ accidentalsFormatted = FALSE
  /\ state = [leftShift |-> 0, before |-> 0]
  /\ score = NoScore

\* A note with an accidental joins the modifier context: its key is gap half
\* lines above the highest key so far (the first one on line 0), and its
\* note heads are displaced to the left by extra.  Two accidentals on one
\* line (gap 0) are tried on the lowest line, in chords of up to half the
\* size.
AddAccidentalWithin(gap, type, extra, most, top) ==
  /\ ~accidentalsFormatted
  /\ Len(accidentals) < most
  /\ gap = 0 => Len(accidentals) = 1
  /\ (Len(accidentals) >= 2 /\ accidentals[1].line = accidentals[2].line)
       => 2 * Len(accidentals) < most
  /\ LET line == IF accidentals = <<>> THEN 0
                 ELSE accidentals[Len(accidentals)].line + gap
     IN  /\ line <= top
         /\ accidentals' = Append(accidentals, [line |-> line, type |-> type,
                                                extra |-> extra, xShift |-> 0])
  /\ UNCHANGED <<lineMetrics, accidentalsFormatted, state, score>>
  /\ UNCHANGED <<fmtVars, staveVars>>

\* In chords of up to MaxAccidentals accidentals on lines up to MaxLine.
AddAccidentalOf(gap, type, extra) ==
  AddAccidentalWithin(gap, type, extra, MaxAccidentals, MaxLine)

\* The same of a note whose heads are not displaced.
AddAccidental(gap, type) == AddAccidentalOf(gap, type, 0)

\* Accidental.format from the columns on: the x shifts and the left shift.
Shifted(sorted, lines, leftShift, maxExtra) ==
  /\ lineMetrics' = lines
  /\ accidentals' = setXShifts(accidentals, sorted, lines, leftShift, maxExtra)
  /\ state' = [leftShift |-> leftShiftAfter(lines, leftShift, maxExtra),
               before |-> state.leftShift]

\* Accidental.format(accidentals, state)
AccidentalFormat ==
  /\ ~accidentalsFormatted
  /\ accidentalsFormatted' = TRUE
  /\ IF accidentals = <<>> THEN UNCHANGED <<lineMetrics, accidentals, state>>
     ELSE Shifted(SortByLineDescending(withIndex(accidentals)),
                  accidentalFormat(accidentals),
                  state.leftShift + Px(NoteheadAccidentalPadding),
                  maxExtraXSpaceNeeded(accidentals))
  /\ UNCHANGED score
  /\ UNCHANGED <<fmtVars, staveVars>>

(***************************************************************************)
(* The life of one Formatter: up to MaxCalls calls, in any order.          *)
(***************************************************************************)
\* The voice lists, widths and staves the calls of this specification are
\* given: no voice, one voice, two voices of different rhythm, a STRICT
\* voice that is incomplete, a SOFT one, and two declared totals.
LifeLists == {<<>>, <<1>>, <<1, 2>>, <<1, 3>>, <<4>>, <<1, 5>>}
LifeWidths == {0, Px(60)}
LifeStaves == {"none"}

(***************************************************************************)
(* Stave (part_002) and Barline (stavebarline.ts).  A stave is a record of *)
(* its fields; its modifiers are records in the order they were added, the *)
(* begin bar line first and the end bar line second.  Pixels are integers. *)
(***************************************************************************)
BarlineType ==
  [SINGLE |-> 1, DOUBLE |-> 2, END |-> 3, REPEAT_BEGIN |-> 4, REPEAT_END |-> 5,
   REPEAT_BOTH |-> 6, NONE |-> 7]

\* Barline.paddings[type]
barlinePadding(type) ==
  IF type \in {BarlineType.REPEAT_BEGIN, BarlineType.REPEAT_END, BarlineType.REPEAT_BOTH}
  THEN 15 ELSE 0

\* Barline.layoutMetricsMap[type]
barlineLayoutMetrics(type) ==
  [xMin |-> CASE type = BarlineType.DOUBLE -> -3
              [] type = BarlineType.END -> -5
              [] type = BarlineType.REPEAT_END -> -10
              [] type = BarlineType.REPEAT_BEGIN -> -2
              [] type = BarlineType.REPEAT_BOTH -> -10
              [] OTHER -> 0,
   xMax |-> CASE type \in {BarlineType.REPEAT_BEGIN, BarlineType.REPEAT_BOTH} -> 10
              [] type = BarlineType.NONE -> 0
              [] OTHER -> 1,
   paddingLeft |-> 5, paddingRight |-> 5]

\* Barline.setType(type): the type, and the width and padding that go with it.
setType(barline, type) ==
  [barline EXCEPT !.type = type, !.width = 5, !.padding = barlinePadding(type)]

\* new Barline(type): at the begin position until the stave places it.
Barline(type) ==
  setType([category |-> "Barline", position |-> "BEGIN", type |-> 0, x |-> 0,
           width |-> 0, padding |-> 0], type)

\* new Clef / KeySignature / TimeSignature, of a glyph width; the padding
\* of a StaveModifier is 10.
StaveModifier(category, width) ==
  [category |-> category, position |-> "BEGIN", type |-> 0, x |-> 0,
   width |-> width, padding |-> 10]

\* resetLines(): numLines visible lines.
resetLines(stave) ==
  [stave EXCEPT !.lineConfig = [i \in 1..stave.numLines |-> [visible |-> "true"]]]

\* addModifier(modifier, position)
addModifier(stave, modifier, position) ==
  [stave EXCEPT !.formatted = FALSE,
                !.modifiers = Append(@, [modifier EXCEPT !.position = position])]

\* numLines: 5, overridden by ...options
DefaultNumLines == 5

numLinesOf(options) ==
  IF options.numLines = <<>> THEN DefaultNumLines ELSE options.numLines[1]

\* The options of a stave: numLines (<<>>: left out), lineConfig, leftBar
\* and rightBar.
StaveOptions(numLines, lineConfig, leftBar, rightBar) ==
  [numLines |-> numLines, lineConfig |-> lineConfig, leftBar |-> leftBar,
   rightBar |-> rightBar]

\* new Stave(x, y, width, options)
newStave(x, width, options) ==
  addModifier(
    addModifier(
      resetLines([x |-> x, width |-> width, formatted |-> FALSE, startX |-> x + 5,
                  endX |-> x + width, modifiers |-> <<>>,
                  numLines |-> numLinesOf(options),
                  lineConfig |-> options.lineConfig]),
      Barline(IF options.leftBar THEN BarlineType.SINGLE ELSE BarlineType.NONE), "BEGIN"),
    Barline(IF options.rightBar THEN BarlineType.SINGLE ELSE BarlineType.NONE), "END")

\* setNumLines(n)
setNumLines(stave, n) == resetLines([stave EXCEPT !.numLines = n])

\* The outcome of a setter: the stave it leaves and the error it raises.
Set(stave) == [stave |-> stave, err |-> "none"]

Throw(stave, name) == [stave |-> stave, err |-> name]

\* setConfigForLine(lineNumber, lineConfig); lineNumber counts from 0, and
\* visible is "true", "false", "undefined" or "other" (no boolean).
setConfigForLine(stave, lineNumber, lineConfig) ==
  IF lineNumber >= stave.numLines \/ lineNumber < 0 THEN Throw(stave, "StaveConfigError")
  ELSE IF lineConfig.visible = "undefined" THEN Throw(stave, "StaveConfigError")
  ELSE IF lineConfig.visible \notin {"true", "false"} THEN Throw(stave, "StaveConfigError")
  ELSE Set([stave EXCEPT !.lineConfig[lineNumber + 1] = lineConfig])

\* A setConfigForLines that takes the entries as they are given.
setConfigForLinesAsGiven(stave, linesConfiguration) ==
  IF Len(linesConfiguration) # stave.numLines THEN Throw(stave, "StaveConfigError")
  ELSE Set([stave EXCEPT !.lineConfig = linesConfiguration])

\* setConfigForLines(linesConfiguration): an entry without visible is
\* replaced by the entry the stave holds, and the array given is kept.
setConfigForLines(stave, linesConfiguration) ==
  IF Len(linesConfiguration) # stave.numLines THEN Throw(stave, "StaveConfigError")
  ELSE Set([stave EXCEPT
              !.lineConfig =
                 [i \in 1..Len(linesConfiguration) |->
                    IF linesConfiguration[i].visible = "undefined"
                    THEN stave.lineConfig[i] ELSE linesConfiguration[i]]])

\* A setBegBarType that takes every type.
setBegBarTypeAny(stave, type) ==
  Set([stave EXCEPT !.modifiers[1] = setType(@, type), !.formatted = FALSE])

\* setBegBarType(type): only none, single and begin repeat are taken.
setBegBarType(stave, type) ==
  IF type \in {BarlineType.SINGLE, BarlineType.REPEAT_BEGIN, BarlineType.NONE}
  THEN Set([stave EXCEPT !.modifiers[1] = setType(@, type), !.formatted = FALSE])
  ELSE Set(stave)

\* A setEndBarType that takes every type.
setEndBarTypeAny(stave, type) ==
  Set([stave EXCEPT !.modifiers[2] = setType(@, type), !.formatted = FALSE])

\* setEndBarType(type): every type but REPEAT_BEGIN is taken.
setEndBarType(stave, type) ==
  IF type # BarlineType.REPEAT_BEGIN
  THEN Set([stave EXCEPT !.modifiers[2] = setType(@, type), !.formatted = FALSE])
  ELSE Set(stave)

\* SORT_ORDER_BEG_MODIFIERS and SORT_ORDER_END_MODIFIERS
SortOrderBegModifiers ==
  [Barline |-> 0, Clef |-> 1, KeySignature |-> 2, TimeSignature |-> 3]

SortOrderEndModifiers ==
  [TimeSignature |-> 0, KeySignature |-> 1, Barline |-> 2, Clef |-> 3]

\* getModifiers(position, category): the places in stave.modifiers of the
\* modifiers that match, in the order they were added; "" matches all.
getModifiers(stave, position, category) ==
  SelectSeq([k \in DOMAIN stave.modifiers |-> k],
            LAMBDA k : /\ position \in {"", stave.modifiers[k].position}
                       /\ category \in {"", stave.modifiers[k].category})

\* The modifier an item of a list stands for: place 0 is the Barline that
\* format has made for the list.
itemOf(stave, item, made) == IF item = 0 THEN made ELSE stave.modifiers[item]

\* modifier.setX(x) on an item of a list.
setItemX(stave, item, x) ==
  IF item = 0 THEN stave ELSE [stave EXCEPT !.modifiers[item].x = x]

\* The inner loop of sortByCategory from j on, i being the outer index.
RECURSIVE sortInner(_, _, _, _, _)
sortInner(stave, items, order, i, j) ==
  IF j >= i THEN items
  ELSE sortInner(stave,
                 IF order[stave.modifiers[items[j]].category]
                      > order[stave.modifiers[items[j + 1]].category]
                 THEN [items EXCEPT ![j] = items[j + 1], ![j + 1] = items[j]]
                 ELSE items,
                 order, i, j + 1)

RECURSIVE sortOuter(_, _, _, _)
sortOuter(stave, items, order, i) ==
  IF i < 1 THEN items
  ELSE sortOuter(stave, sortInner(stave, items, order, i, 1), order, i - 1)

\* sortByCategory(items, order)
sortByCategory(stave, items, order) == sortOuter(stave, items, order, Len(items))

\* StaveModifier.getPadding(index); a key signature has its padding at
\* every index.
getPadding(modifier, index) ==
  IF modifier.category = "KeySignature" THEN modifier.padding
  ELSE IF index < 2 THEN 0 ELSE modifier.padding

\* The begin modifiers of format: a repeat begin goes behind the others,
\* and a single bar line takes its place.
begModifiersOf(stave, sorted) ==
  IF Len(sorted) > 1 /\ stave.modifiers[1].type = BarlineType.REPEAT_BEGIN
  THEN <<0>> \o Tail(sorted) \o <<sorted[1]>>
  ELSE sorted

\* The end modifiers of format: a bar line of type NONE goes before them
\* when the end bar line is not the first.
endModifiersOf(stave, sorted) ==
  IF \E k \in 2..Len(sorted) : sorted[k] = 2 THEN <<0>> \o sorted ELSE sorted

\* The loop over the begin modifiers from the i-th (i counts from 0): the
\* stave, and the x behind the last modifier.
RECURSIVE placeBegModifiers(_, _, _, _, _)
placeBegModifiers(stave, items, i, offset, x) ==
  IF i >= Len(items) THEN [stave |-> stave, x |-> x]
  ELSE LET modifier == itemOf(stave, items[i + 1], Barline(BarlineType.SINGLE))
           padding == getPadding(modifier, i + offset)
       IN  placeBegModifiers(setItemX(stave, items[i + 1], x + padding), items, i + 1,
                             IF padding + modifier.width = 0 THEN offset - 1 ELSE offset,
                             x + padding + modifier.width)

\* The widths of the i-th end modifier.
endWidths(modifier, i, lastBarlineIdx, last) ==
  IF modifier.category = "Barline"
  THEN [right |-> IF i # 0 THEN barlineLayoutMetrics(modifier.type).xMax ELSE 0,
        paddingRight |-> IF i # 0 THEN barlineLayoutMetrics(modifier.type).paddingRight ELSE 0,
        left |-> -barlineLayoutMetrics(modifier.type).xMin,
        paddingLeft |-> IF last THEN 0 ELSE barlineLayoutMetrics(modifier.type).paddingLeft]
  ELSE [right |-> IF i # 0 THEN modifier.width ELSE 0,
        paddingRight |-> getPadding(modifier, i - lastBarlineIdx),
        left |-> IF i = 0 THEN modifier.width ELSE 0,
        paddingLeft |-> 0]

\* The loop over the end modifiers from the i-th (i counts from 0).
RECURSIVE placeEndModifiers(_, _, _, _, _)
placeEndModifiers(stave, items, i, lastBarlineIdx, x) ==
  IF i >= Len(items) THEN [stave |-> stave, x |-> x]
  ELSE LET modifier == itemOf(stave, items[i + 1], Barline(BarlineType.NONE))
           idx == IF modifier.category = "Barline" THEN i ELSE lastBarlineIdx
           widths == endWidths(modifier, i, idx, i = Len(items) - 1)
       IN  placeEndModifiers(
             setItemX(stave, items[i + 1], x - widths.paddingRight - widths.right),
             items, i + 1, idx,
             x - widths.paddingRight - widths.right - widths.left - widths.paddingLeft)

\* format from the loop over the end modifiers on.
formatEnd(begun, endModifiers) ==
  [placeEndModifiers([begun.stave EXCEPT !.startX = begun.x], endModifiers, 0, 0,
                     begun.stave.x + begun.stave.width).stave
     EXCEPT !.endX = IF Len(endModifiers) = 1 THEN begun.stave.x + begun.stave.width
                     ELSE placeEndModifiers(begun.stave, endModifiers, 0, 0,
                                            begun.stave.x + begun.stave.width).x,
            !.formatted = TRUE]

\* Stave.format()
format(stave) ==
  formatEnd(placeBegModifiers(stave,
              begModifiersOf(stave, sortByCategory(stave, getModifiers(stave, "BEGIN", ""),
                                                   SortOrderBegModifiers)),
              0, 0, stave.x),
            endModifiersOf(stave, sortByCategory(stave, getModifiers(stave, "END", ""),
                                                 SortOrderEndModifiers)))

\* if (!this.formatted) this.format()
formatIfNeeded(stave) == IF stave.formatted THEN stave ELSE format(stave)

\* setNoteStartX(x)
setNoteStartX(stave, x) == [formatIfNeeded(stave) EXCEPT !.startX = x]

\* Stave.getNoteStartX(), on a stave record.
noteStartX(stave) == formatIfNeeded(stave).startX

\* minStartX of adjustCategoryStartX: the largest x of the first begin
\* modifier of the category on the staves, and no less than 0.
minStartXOf(staves, category) ==
  MaxOf({0} \cup {staves[i].modifiers[getModifiers(staves[i], "BEGIN", category)[1]].x :
                    i \in {j \in DOMAIN staves :
                             getModifiers(staves[j], "BEGIN", category) # <<>>}})

\* adjustX of a stave: the most that a modifier of the category is short of
\* minStartX.
adjustXOf(stave, category, minStartX) ==
  MaxOf({0} \cup {minStartX - stave.modifiers[k].x :
                    k \in Range(getModifiers(stave, "BEGIN", category))})

\* The adjustment of a stave: the begin modifiers from the first one of the
\* category on, in the order they were added, and the note start.
adjustBeyond(stave, category, adjustX) ==
  setNoteStartX(
    [stave EXCEPT
       !.modifiers =
          [k \in DOMAIN stave.modifiers |->
             IF /\ adjustX > 0
                /\ stave.modifiers[k].position = "BEGIN"
                /\ \E j \in 1..k : /\ stave.modifiers[j].position = "BEGIN"
                                   /\ stave.modifiers[j].category = category
             THEN [stave.modifiers[k] EXCEPT !.x = @ + adjustX]
             ELSE stave.modifiers[k]]],
    noteStartX(stave) + adjustX)

\* adjustCategoryStartX(category)
adjustCategoryStartX(staves, category) ==
  [i \in DOMAIN staves |->
     adjustBeyond(staves[i], category,
                  adjustXOf(staves[i], category, minStartXOf(staves, category)))]

\* align note start
alignNoteStart(staves) ==
  [i \in DOMAIN staves |->
     setNoteStartX(staves[i], MaxOf({0} \cup {noteStartX(staves[j]) : j \in DOMAIN staves}))]

\* The begin bar lines of type REPEAT_BEGIN of a stave.
repeatBegins(stave) ==
  {k \in Range(getModifiers(stave, "BEGIN", "Barline")) :
     stave.modifiers[k].type = BarlineType.REPEAT_BEGIN}

\* maxX of the REPEAT_BEGIN bar lines.
repeatBeginMaxX(staves) ==
  MaxOf({0} \cup UNION {{staves[j].modifiers[m].x : m \in repeatBegins(staves[j])} :
                          j \in DOMAIN staves})

\* align REPEAT_BEGIN
alignRepeatBegin(staves) ==
  [i \in DOMAIN staves |->
     [staves[i] EXCEPT
        !.modifiers =
           [k \in DOMAIN staves[i].modifiers |->
              IF k \in repeatBegins(staves[i])
              THEN [staves[i].modifiers[k] EXCEPT !.x = repeatBeginMaxX(staves)]
              ELSE staves[i].modifiers[k]]]]

\* Stave.formatBegModifiers(staves)
formatBegModifiers(staves) ==
  alignRepeatBegin(
    alignNoteStart(
      adjustCategoryStartX(
        adjustCategoryStartX(
          adjustCategoryStartX([i \in DOMAIN staves |-> formatIfNeeded(staves[i])], "Clef"),
          "KeySignature"),
        "TimeSignature")))

(***************************************************************************)
(* The calls on the staves.  staveCall is the most recent one: its name,   *)
(* the stave it was made on (0: all), its argument where it is a bar line  *)
(* type, and the error it raised.                                          *)
(***************************************************************************)
NoStaves ==
  /\ allStaves = <<>>
  /\ staveCall = [op |-> "none", stave |-> 0, arg |-> 0, err |-> "none"]

StaveCalled(name, i, arg, err) ==
  /\ staveCall' = [op |-> name, stave |-> i, arg |-> arg, err |-> err]
  /\ UNCHANGED <<fmtVars, accVars>>

\* The stave a setter leaves, and the error it raises.
StaveSet(name, i, arg, outcome) ==
  /\ allStaves' = [allStaves EXCEPT ![i] = outcome.stave]
  /\ StaveCalled(name, i, arg, outcome.err)

\* new Stave(x, y, width, options)
NewStave(x, width, options) ==
  /\ Len(allStaves) < MaxStaves
  /\ allStaves' = Append(allStaves, newStave(x, width, options))
  /\ StaveCalled("constructor", Len(allStaves) + 1, 0, "none")

\* stave.setNumLines(n)
SetNumLines(i, n) ==
  /\ i \in DOMAIN allStaves
  /\ StaveSet("setNumLines", i, 0, Set(setNumLines(allStaves[i], n)))

\* stave.resetLines()
ResetLines(i) ==
  /\ i \in DOMAIN allStaves
  /\ StaveSet("resetLines", i, 0, Set(resetLines(allStaves[i])))

\* stave.setConfigForLine(lineNumber, {visible})
SetConfigForLine(i, lineNumber, visible) ==
  /\ i \in DOMAIN allStaves
  /\ StaveSet("setConfigForLine", i, 0,
              setConfigForLine(allStaves[i], lineNumber, [visible |-> visible]))

\* stave.setConfigForLines(linesConfiguration)
SetConfigForLines(i, linesConfiguration) ==
  /\ i \in DOMAIN allStaves
  /\ StaveSet("setConfigForLines", i, 0, setConfigForLines(allStaves[i], linesConfiguration))

\* stave.setBegBarType(type)
SetBegBarType(i, type) ==
  /\ i \in DOMAIN allStaves
  /\ StaveSet("setBegBarType", i, type, setBegBarType(allStaves[i], type))

\* stave.setEndBarType(type)
SetEndBarType(i, type) ==
  /\ i \in DOMAIN allStaves
  /\ StaveSet("setEndBarType", i, type, setEndBarType(allStaves[i], type))

\* stave.addClef, addKeySignature or addTimeSignature at the begin
\* position, and addEndClef at the end: a modifier of a glyph width.
AddModifier(i, category, width, position) ==
  /\ i \in DOMAIN allStaves
  /\ Len(allStaves[i].modifiers) < 2 + MaxModifiers
  /\ \A k \in DOMAIN allStaves[i].modifiers :
       allStaves[i].modifiers[k].category = category
         => allStaves[i].modifiers[k].position # position
  /\ StaveSet("addModifier", i, 0,
              Set(addModifier(allStaves[i], StaveModifier(category, width), position)))

\* stave.format()
StaveFormat(i) ==
  /\ i \in DOMAIN allStaves
  /\ StaveSet("format", i, 0, Set(format(allStaves[i])))

\* Stave.formatBegModifiers(staves), on all the staves there are.
FormatBegModifiers ==
  /\ allStaves # <<>>
  /\ allStaves' = formatBegModifiers(allStaves)
  /\ StaveCalled("formatBegModifiers", 0, 0, "none")

Init == Constructed(MaxIterationsOption) /\ NoAccidentals /\ NoStaves

Next ==
  \/ /\ calls < MaxCalls
     /\ \/ \E vs \in LifeLists : JoinVoices(vs)
        \/ \E vs \in LifeLists : CreateTickContexts(vs)
        \/ GetMinTotalWidth
        \/ GetTickContexts
        \/ \E vs \in LifeLists : PreCalculateMinTotalWidth(vs)
        \/ \E width \in LifeWidths : PreFormat(width)
        \/ \E vs \in LifeLists, width \in LifeWidths, stave \in LifeStaves :
             Format(vs, width, stave)
  \/ JustifyPass
  \/ JustifyEnd

vars == <<fmtVars, accVars, staveVars>>

Spec == Init /\ [][Next]_vars

(***************************************************************************)
(* One call on a new Formatter, with any list of up to MaxVoices voices.   *)
(***************************************************************************)
NextLists ==
  /\ calls < 1
  /\ \E vs \in VoiceLists :
       \/ JoinVoices(vs)
       \/ CreateTickContexts(vs)
       \/ GetResolutionMultiplier(vs)
       \/ AlignRests(vs)
       \/ PreCalculateMinTotalWidth(vs)
       \/ Format(vs, 0, "none")

SpecLists == Init /\ [][NextLists]_vars

(***************************************************************************)
(* Justification: one format call on a new Formatter, constructed with any *)
(* maxIterations up to MaxIterationsOption, with or without a stave.       *)
(***************************************************************************)
JustifyLists ==
  {<<1>>, <<2>>, <<4>>, <<6>>, <<7>>, <<1, 2>>, <<2, 1>>, <<2, 4>>, <<1, 6>>, <<1, 7>>}
JustifyWidths == {Px(1), Px(20), Px(40), Px(60), Px(100), Px(200), Px(400)}
JustifyStaves == {"none", "stave"}

InitJustify ==
  /\ \E budget \in 0..MaxIterationsOption : Constructed(budget)
  /\ NoAccidentals
  /\ NoStaves

NextJustify ==
  \/ /\ calls < 1
     /\ \E vs \in JustifyLists, width \in JustifyWidths, stave \in JustifyStaves :
          Format(vs, width, stave)
  \/ JustifyPass
  \/ JustifyEnd

SpecJustify == InitJustify /\ [][NextJustify]_vars

\* preFormat runs to its end once called: its loop is a while loop of one
\* thread, so a pass that can be taken is taken, and so is the way out.
SpecJustifyFair == SpecJustify /\ WF_vars(JustifyPass) /\ WF_vars(JustifyEnd)

(***************************************************************************)
(* Staves: joinVoices, then format or formatToStave, with and without a    *)
(* stave in the options, on a new Formatter with any maxIterations up to   *)
(* MaxIterationsOption.                                                    *)
(***************************************************************************)
StaveLists == {<<1>>, <<3>>, <<7>>, <<1, 2>>, <<2, 4>>}
StaveWidths == {0, Px(60), Px(200)}

NextStave ==
  \/ /\ calls < MaxCalls - 1
     /\ \/ \E vs \in StaveLists : JoinVoices(vs)
        \/ \E vs \in StaveLists, width \in StaveWidths, stave \in JustifyStaves :
             Format(vs, width, stave)
        \/ \E vs \in StaveLists, optionStave \in JustifyStaves :
             FormatToStave(vs, "stave", optionStave)
  \/ JustifyPass
  \/ JustifyEnd

SpecStave == InitJustify /\ [][NextStave]_vars

(***************************************************************************)
(* SimpleFormat of the tickables of any voice, from any of a few starting  *)
(* points, with the default padding or one of a few paddings.              *)
(***************************************************************************)
SimpleStarts == {0, Px(5), Px(50)}
SimpleOptions == {<<>>, <<0>>, <<Px(4)>>, <<Px(10)>>}

NextSimple ==
  /\ calls < MaxCalls - 1
  /\ \E v \in VoiceIds, x \in SimpleStarts, options \in SimpleOptions :
       SimpleFormat(v, x, options)

SpecSimple == Init /\ [][NextSimple]_vars

(***************************************************************************)
(* Evaluation: up to MaxCalls calls on a new Formatter, among them         *)
(* evaluate, on voices that format lays out, that createTickContexts moves *)
(* to other contexts, or that format rejects.                              *)
(***************************************************************************)
EvaluateLists == {<<1>>, <<3>>, <<7>>, <<1, 2>>}
EvaluateWidths == {0, Px(100)}

NextEvaluate ==
  \/ /\ calls < MaxCalls
     /\ \/ \E vs \in EvaluateLists, width \in EvaluateWidths : Format(vs, width, "none")
        \/ \E vs \in EvaluateLists : CreateTickContexts(vs)
        \/ \E width \in EvaluateWidths : PreFormat(width)
        \/ Evaluate
  \/ JustifyPass
  \/ JustifyEnd

SpecEvaluate == Init /\ [][NextEvaluate]_vars

(***************************************************************************)
(* The accidentals of one modifier context: chords of up to MaxAccidentals *)
(* accidentals on lines 0..MaxLine, given lowest line first, then format.  *)
(***************************************************************************)
AccidentalTypes == {"#", "b", "##"}
AccidentalGaps == 0..MaxLine

NextAccidental ==
  \/ \E gap \in AccidentalGaps, type \in AccidentalTypes : AddAccidental(gap, type)
  \/ AccidentalFormat

SpecAccidental == Init /\ [][NextAccidental]_vars

(***************************************************************************)
(* applyAccidentals on two voices of up to MaxNotes notes each, without    *)
(* key signature or in G, once and once more.                              *)
(***************************************************************************)
KeySignatures == {"", "G"}

NextApply ==
  \/ \E v \in 1..2, keys \in NoteKeys, ticks \in 1..2 : AddNote(v, keys, ticks, FALSE)
  \/ \E v \in 1..2, ticks \in 1..2 : AddNote(v, <<Key("c", "", 4)>>, ticks, TRUE)
  \/ \E keySignature \in KeySignatures : ApplyAccidentals(keySignature)

SpecApply == Init /\ [][NextApply]_vars

(***************************************************************************)
(* tune: one format call on a new Formatter, then up to two calls of tune  *)
(* with the default alpha, 1 or 1/4.                                       *)
(***************************************************************************)
TuneLists == {<<1>>, <<6>>, <<7>>, <<1, 2>>, <<2, 4>>, <<1, 7>>, <<6, 7>>}
TuneWidths == {0, Px(100), Px(200), Px(400)}
TuneOptions == {<<>>, <<<<1, 1>>>>, <<<<1, 4>>>>}

NextTune ==
  \/ /\ calls < 1
     /\ \E vs \in TuneLists, width \in TuneWidths, stave \in JustifyStaves :
          Format(vs, width, stave)
  \/ JustifyPass
  \/ JustifyEnd
  \/ /\ calls \in 1..2
     /\ \E options \in TuneOptions : Tune(options)

SpecTune == InitJustify /\ [][NextTune]_vars

(***************************************************************************)
(* Tick contexts built by format, or by createTickContexts or              *)
(* preCalculateMinTotalWidth and then preFormat, and tune on them; the     *)
(* justification width is negative, 0 or 100 px.                           *)
(***************************************************************************)
AccountLists == {<<1>>, <<3>>, <<1, 2>>}
AccountWidths == {-Px(10), 0, Px(100)}

NextAccount ==
  \/ /\ calls < MaxCalls
     /\ \/ \E vs \in AccountLists, width \in AccountWidths : Format(vs, width, "none")
        \/ \E vs \in AccountLists : CreateTickContexts(vs)
        \/ \E vs \in AccountLists : PreCalculateMinTotalWidth(vs)
        \/ \E width \in AccountWidths : PreFormat(width)
        \/ Tune(<<>>)
  \/ JustifyPass
  \/ JustifyEnd

SpecAccount == Init /\ [][NextAccount]_vars

(***************************************************************************)
(* Up to MaxStaves staves at x 0, each with up to MaxModifiers of a clef,  *)
(* a key signature and a time signature at its begin, added in any order,  *)
(* and an end clef on the first; a begin bar line that may be a repeat     *)
(* begin on the last; format on the first, and then formatBegModifiers on  *)
(* all of them, once.                                                      *)
(***************************************************************************)
BeginGlyphs ==
  {<<"Clef", 20>>, <<"Clef", 30>>, <<"KeySignature", 15>>, <<"TimeSignature", 18>>}

NextBegin ==
  /\ staveCall.op # "formatBegModifiers"
  /\ \/ FormatBegModifiers
     \/ NewStave(0, 300, StaveOptions(<<>>, <<>>, TRUE, TRUE))
     \/ \E i \in 1..MaxStaves, glyph \in BeginGlyphs :
          AddModifier(i, glyph[1], glyph[2], "BEGIN")
     \/ AddModifier(1, "Clef", 20, "END")
     \/ SetBegBarType(MaxStaves, BarlineType.REPEAT_BEGIN)
     \/ StaveFormat(1)

SpecBegin == Init /\ [][NextBegin]_vars

(***************************************************************************)
(* The bar lines of a stave: staves made with and without a left and a     *)
(* right bar, and on the first of them setBegBarType and setEndBarType     *)
(* with every BarlineType, and format.                                     *)
(***************************************************************************)
BarTypes ==
  {BarlineType.SINGLE, BarlineType.DOUBLE, BarlineType.END, BarlineType.REPEAT_BEGIN,
   BarlineType.REPEAT_END, BarlineType.REPEAT_BOTH, BarlineType.NONE}

NextBars ==
  \/ \E leftBar, rightBar \in BOOLEAN :
       NewStave(0, 300, StaveOptions(<<>>, <<>>, leftBar, rightBar))
  \/ \E type \in BarTypes : SetBegBarType(1, type)
  \/ \E type \in BarTypes : SetEndBarType(1, type)
  \/ StaveFormat(1)

SpecBars == Init /\ [][NextBars]_vars

(***************************************************************************)
(* The lines of a stave: staves made with 0 to MaxNumLines lines or the    *)
(* default, with and without a lineConfig option, and on the first of them *)
(* setNumLines, resetLines, setConfigForLine with line numbers in and out  *)
(* of range, and setConfigForLines with up to MaxNumLines entries, visible *)
(* being true, false, missing or no boolean.                               *)
(***************************************************************************)
LineVisibles == {"true", "false", "undefined", "other"}

LineConfigs ==
  UNION {[1..n -> {[visible |-> v] : v \in LineVisibles}] : n \in 0..MaxNumLines}

LineOptions ==
  {StaveOptions(numLines, lineConfig, TRUE, TRUE) :
     numLines \in {<<>>} \cup {<<n>> : n \in 0..MaxNumLines},
     lineConfig \in {<<>>, <<[visible |-> "false"]>>}}

NextLines ==
  \/ \E options \in LineOptions : NewStave(0, 300, options)
  \/ \E n \in 0..MaxNumLines : SetNumLines(1, n)
  \/ ResetLines(1)
  \/ \E lineNumber \in -1..MaxNumLines, visible \in LineVisibles :
       SetConfigForLine(1, lineNumber, visible)
  \/ \E linesConfiguration \in LineConfigs : SetConfigForLines(1, linesConfiguration)

SpecLines == Init /\ [][NextLines]_vars

(***************************************************************************)
(* Chords of up to MaxPattern sharps, each one, three or six half lines    *)
(* above the one before: groups of seven lines beside other groups.        *)
(***************************************************************************)
MaxPattern == 10
PatternGaps == {1, 3, 6}

NextPattern ==
  \/ \E gap \in PatternGaps :
       AddAccidentalWithin(gap, "#", 0, MaxPattern, MaxPattern * 6)
  \/ AccidentalFormat

SpecPattern == Init /\ [][NextPattern]_vars

(***************************************************************************)
(* The x shifts of the accidentals of chords of up to MaxShifted           *)
(* accidentals, with note heads displaced to the left or not, in a         *)
(* modifier context whose left shift is 0 or not.                          *)
(***************************************************************************)
MaxShifted == 4
ShiftGaps == {0, 2, 6}
ShiftTypes == {"#", "b"}
ShiftExtras == {0, Px(4), Px(12)}

InitShift ==
  /\ Constructed(MaxIterationsOption)
  /\ accidentals = <<>>
  /\ lineMetrics = <<>>
  /\ accidentalsFormatted = FALSE
  /\ state \in {[leftShift |-> 0, before |-> 0], [leftShift |-> Px(6), before |-> Px(6)]}
  /\ score = NoScore
  /\ NoStaves

NextShift ==
  \/ /\ Len(accidentals) < MaxShifted
     /\ \E gap \in ShiftGaps, type \in ShiftTypes, extra \in ShiftExtras :
          AddAccidentalOf(gap, type, extra)
  \/ AccidentalFormat

SpecShift == InitShift /\ [][NextShift]_vars

(***************************************************************************)
(* Properties of the contexts a Formatter holds.                           *)
(***************************************************************************)
\* The most recent call has returned (or is in its loop) without an error.
Succeeded == result.err = "none"

\* The tickables of the voices of a list, as the contexts refer to them.
TickablesOf(vs) ==
  UNION {{[voice |-> vs[i], index |-> k] : k \in 1..Len(getTickables(vs[i]))} :
           i \in DOMAIN vs}

\* The tickables the tick contexts hold, and those of one modifier-context set.
TickablesInTickContexts(contexts) ==
  UNION {Range(contexts.map[t].tickables) : t \in DOMAIN contexts.map}

TickablesInModifierContexts(set) ==
  UNION {Range(set.array[i].members) : i \in DOMAIN set.array}

\* The tick contexts are the ones built from the voices of the list.
TickContextsAreOf(contexts, vs) ==
  /\ TickablesInTickContexts(contexts) = TickablesOf(vs)
  /\ Range(contexts.list) = DOMAIN contexts.map
  /\ \A t \in DOMAIN contexts.map : contexts.map[t].tickables # <<>>

\* C1 as stated: after a joinVoices or format call with voices, the modifier
\* contexts (joinVoices) and the tick contexts (format) the Formatter holds are
\* exactly those built from the voices of that call; nothing of an earlier
\* call is left.
C1_ContextsReplaced ==
  (Idle /\ Succeeded /\ call.voices # <<>>) =>
     /\ call.op = "joinVoices" =>
          /\ Len(modifierContexts) = 1
          /\ TickablesInModifierContexts(modifierContexts[1]) = TickablesOf(call.voices)
     /\ call.op = "format" => TickContextsAreOf(tickContexts, call.voices)

\* C1 amended: a joinVoices call that returns (voices given) keeps every
\* modifier-context set the Formatter held and appends one set built from
\* its voices, leaving the tick contexts alone; a createTickContexts or
\* format call that passes validation (voices given) replaces the tick
\* contexts by those built from its voices and adds no modifier-context set.
C1_Step ==
  (calls' = calls + 1 /\ result'.err = "none" /\ call'.voices # <<>>) =>
     /\ call'.op = "joinVoices" =>
          /\ Len(modifierContexts') = Len(modifierContexts) + 1
          /\ SubSeq(modifierContexts', 1, Len(modifierContexts)) = modifierContexts
          /\ TickablesInModifierContexts(modifierContexts'[Len(modifierContexts')])
               = TickablesOf(call'.voices)
          /\ tickContexts' = tickContexts
     /\ call'.op \in {"createTickContexts", "format"} =>
          /\ TickContextsAreOf(tickContexts', call'.voices)
          /\ Len(modifierContexts') = Len(modifierContexts)

C1_JoinAppendsFormatReplaces == [][C1_Step]_vars

\* A second joinVoices has returned on a Formatter that holds tick contexts.
C1_Witness ==
  /\ call.op = "joinVoices"
  /\ Succeeded
  /\ Len(modifierContexts) = 2
  /\ tickContexts.list # <<>>

\* C2 as stated: getMinTotalWidth raises NoMinTotalWidth exactly when no
\* preCalculateMinTotalWidth, preFormat or format call has completed since the
\* construction or the most recent joinVoices call (one that returned: a
\* joinVoices that raises leaves the Formatter as it was), and returns the
\* stored minimum width otherwise.
C2_RaisesUnlessCompleted ==
  call.op = "getMinTotalWidth" =>
     IF history.completedSinceJoin THEN result = Returned("number", minTotalWidth)
     ELSE result = Raised("NoMinTotalWidth")

\* C7 as stated: while createTickContexts has never run on the Formatter,
\* getTickContexts returns undefined and preFormat raises NoTickContexts.
C7_AbsentBeforeCreate ==
  ~history.createTickContextsRan =>
     /\ call.op = "getTickContexts" => result.kind = "undefined"
     /\ call.op = "preFormat" => result = Raised("NoTickContexts")

(***************************************************************************)
(* Properties of one call with a voice list on a new Formatter.            *)
(***************************************************************************)
\* The place of a tickable in its voice, and the exact offset it starts at.
Places(vs) == TickablesOf(vs)

StartOffset(p) == TicksUpTo(p.voice, p.index - 1)

SameOffset(p, q) == FractionEquals(StartOffset(p), StartOffset(q))

\* The ticks of the contexts that hold the tickable.
ContextsOf(contexts, p) ==
  {t \in DOMAIN contexts.map : p \in Range(contexts.map[t].tickables)}

\* The number of distinct start offsets among the tickables of the voices.
DistinctOffsets(vs) ==
  Cardinality({{q \in Places(vs) : SameOffset(p, q)} : p \in Places(vs)})

\* C3: createTickContexts on voices of equal declared totals builds exactly
\* one context per distinct start offset: every tickable is in one context,
\* two tickables share a context exactly when they start at the same offset,
\* and the number of contexts is the number of distinct offsets.
C3_OneContextPerOffset ==
  (call.op = "createTickContexts" /\ Succeeded /\ call.voices # <<>>) =>
     /\ \A p \in Places(call.voices) : Cardinality(ContextsOf(tickContexts, p)) = 1
     /\ \A p, q \in Places(call.voices) :
          (ContextsOf(tickContexts, p) = ContextsOf(tickContexts, q)) <=> SameOffset(p, q)
     /\ Len(tickContexts.list) = DistinctOffsets(call.voices)
     /\ Cardinality(DOMAIN tickContexts.map) = DistinctOffsets(call.voices)
     /\ Len(tickContexts.array) = DistinctOffsets(call.voices)
     /\ \A t \in DOMAIN tickContexts.map : tickContexts.map[t].tickables # <<>>

\* Two voices of different rhythm: tickables of both at offset 0 share a
\* context, and there are more contexts than either voice has tickables.
C3_Witness ==
  /\ call.op = "createTickContexts"
  /\ Succeeded
  /\ Len(call.voices) = 2
  /\ \E t \in DOMAIN tickContexts.map : Len(tickContexts.map[t].tickables) = 2
  /\ Len(tickContexts.list) = 3

EqualTotals(vs) ==
  \A i \in DOMAIN vs : FractionEquals(getTotalTicks(vs[i]), getTotalTicks(vs[1]))

\* The ticks the voice uses differ from the total it declares.
Incomplete(v) == ~FractionEquals(getTicksUsed(v), getTotalTicks(v))

\* C4: with voices of equal declared totals, format, createTickContexts and
\* joinVoices raise IncompleteVoice when some STRICT voice is incomplete, and
\* do not raise it when every incomplete voice is SOFT.
C4_IncompleteVoice ==
  (call.op \in {"format", "createTickContexts", "joinVoices"}
     /\ call.voices # <<>> /\ EqualTotals(call.voices)) =>
     /\ (\E i \in DOMAIN call.voices :
           getMode(call.voices[i]) = "STRICT" /\ Incomplete(call.voices[i]))
          => result = Raised("IncompleteVoice")
     /\ (\A i \in DOMAIN call.voices :
           Incomplete(call.voices[i]) => getMode(call.voices[i]) = "SOFT")
          => result.err # "IncompleteVoice"

\* format was given a complete voice and an incomplete STRICT one, and raised.
C4_Witness ==
  /\ call.op = "format"
  /\ Len(call.voices) = 2
  /\ \E i \in DOMAIN call.voices : ~Incomplete(call.voices[i])
  /\ result = Raised("IncompleteVoice")

\* C5: when some voice declares another total than the first and every
\* STRICT voice is complete, getResolutionMultiplier, format,
\* createTickContexts and joinVoices raise TickMismatch and the Formatter
\* holds no tick context and no modifier context afterwards.
C5_TickMismatch ==
  (call.op \in {"getResolutionMultiplier", "format", "createTickContexts", "joinVoices"}
     /\ call.voices # <<>> /\ ~EqualTotals(call.voices)
     /\ \A i \in DOMAIN call.voices :
          getMode(call.voices[i]) = "STRICT" => ~Incomplete(call.voices[i])) =>
     /\ result = Raised("TickMismatch")
     /\ tickContexts.list = <<>> /\ DOMAIN tickContexts.map = {}
     /\ modifierContexts = <<>>

\* joinVoices was given two complete voices of different totals, and raised.
C5_Witness ==
  /\ call.op = "joinVoices"
  /\ ~EqualTotals(call.voices)
  /\ \A i \in DOMAIN call.voices : ~Incomplete(call.voices[i])
  /\ result = Raised("TickMismatch")

\* The operations that take a list of voices.
VoiceOperations ==
  {"joinVoices", "createTickContexts", "preCalculateMinTotalWidth", "format",
   "alignRests", "getResolutionMultiplier"}

\* C6 as stated: every operation that takes voices raises an error when the
\* list is empty.
C6_EmptyListRaises ==
  (call.op \in VoiceOperations /\ call.voices = <<>>) => result.err # "none"

\* C6 amended: given an empty list, format, alignRests and
\* getResolutionMultiplier raise BadArgument, while joinVoices,
\* createTickContexts and preCalculateMinTotalWidth return without an error
\* and build no context.
C6_EmptyListRaisesOrSkips ==
  (call.op \in VoiceOperations /\ call.voices = <<>>) =>
     /\ call.op \in {"format", "alignRests", "getResolutionMultiplier"}
          => result = Raised("BadArgument")
     /\ call.op \in {"joinVoices", "createTickContexts", "preCalculateMinTotalWidth"}
          => Succeeded
     /\ tickContexts.list = <<>> /\ DOMAIN tickContexts.map = {}
     /\ modifierContexts = <<>>

\* createTickContexts was given an empty list and returned.
C6_Witness ==
  /\ call.op = "createTickContexts"
  /\ call.voices = <<>>
  /\ Succeeded

(***************************************************************************)
(* Properties of the justification.                                        *)
(***************************************************************************)
\* format was called with a width above 0 and justifies two contexts or more:
\* preFormat has made its first pass.
Justifying == call.op = "format" /\ call.justifyWidth > 0 /\ frame.passes >= 1

\* The preFormat of that call has ended.
Justified == Justifying /\ Idle

\* C9 as stated: after preFormat with a width above 0 and two contexts or
\* more, the last context is at most the width minus Stave.endPaddingMin to
\* the right of the first, for every input and every maxIterations.
C9_WithinTargetWidth ==
  Justified =>
     actualWidthOf(tickContexts) <= call.justifyWidth - Px(StaveEndPaddingMin)

\* C9 amended: the bound holds whenever the loop of preFormat ends with
\* iterations of its budget left, that is, not because maxIterations is 0 or
\* used up.
C9_WithinTargetWidthInBudget ==
  (Justified /\ frame.iterations > 0) =>
     actualWidthOf(tickContexts) <= call.justifyWidth - Px(StaveEndPaddingMin)

\* A correction pass has run and the loop has ended with budget left.
C9_Witness ==
  /\ Justified
  /\ frame.passes >= 2
  /\ frame.iterations > 0
  /\ actualWidthOf(tickContexts) <= call.justifyWidth - Px(StaveEndPaddingMin)

\* C10 as stated: after the first pass and after every pass of the loop, the
\* x of the tick contexts increases strictly in tick order.
C10_ContextsNeverCross ==
  Justifying =>
     \A k \in 1..(Len(tickContexts.list) - 1) :
        contextAt(tickContexts, k).x < contextAt(tickContexts, k + 1).x

SumTickableWidths(vs) ==
  sumArray([i \in 1..Len(vs) |->
              sumArray([k \in 1..Len(getTickables(vs[i])) |->
                          tickableWidth([voice |-> vs[i], index |-> k])])])

\* The room a context needs: the widest note head and the widest left and
\* right modifiers among its tickables.
ContextExtent(context) ==
  LET ts == context.tickables
  IN  MaxOf({notePxOf(ts[k]) : k \in DOMAIN ts})
        + MaxOf({modLeftPxOf(ts[k]) : k \in DOMAIN ts})
        + MaxOf({modRightPxOf(ts[k]) : k \in DOMAIN ts})

SumContextExtents(contexts) ==
  sumArray([k \in 1..Len(contexts.list) |-> ContextExtent(contextAt(contexts, k))])

\* C11 as stated: preCalculateMinTotalWidth returns a number that is at least
\* the sum of the widths of all tickables of the voices.
C11_AtLeastTickableWidths ==
  (call.op = "preCalculateMinTotalWidth" /\ Succeeded) =>
     /\ result.kind = "number"
     /\ result.value >= SumTickableWidths(call.voices)

\* Some voice of the list holds a tickable.
HoldsTickables(vs) == \E i \in DOMAIN vs : getTickables(vs[i]) # <<>>

\* C11 amended: on a Formatter that holds no minimum width yet, given a list
\* that passes validation and holds a tickable, preCalculateMinTotalWidth
\* stores the sum of the widths of the tick contexts (for one voice: the sum
\* of the widths of its tickables) and returns that sum plus a padding of 0
\* or more.
C11_AtLeastContextWidths ==
  (call.op = "preCalculateMinTotalWidth" /\ Succeeded /\ HoldsTickables(call.voices)) =>
     /\ result.kind = "number"
     /\ hasMinTotalWidth
     /\ minTotalWidth = SumContextExtents(tickContexts)
     /\ result.value >= minTotalWidth
     /\ Len(call.voices) = 1 => minTotalWidth = SumTickableWidths(call.voices)

\* Two voices that share a context: the padding is above 0, and the width
\* returned is below the sum of the widths of the tickables.
C11_Witness ==
  /\ call.op = "preCalculateMinTotalWidth"
  /\ Succeeded
  /\ Len(call.voices) = 2
  /\ result.kind = "number"
  /\ result.value > minTotalWidth
  /\ result.value < SumTickableWidths(call.voices)

(***************************************************************************)
(* C12.  evaluate called twice in succession, nothing having moved in      *)
(* between, gives the same outcome both times: the same cost, or the same  *)
(* error.                                                                  *)
(***************************************************************************)
C12_EvaluateTwiceSameCost ==
  [][(call.op = "evaluate" /\ call'.op = "evaluate" /\ calls' = calls + 1)
       => result' = result]_vars

\* A layout has been evaluated by format and twice more by evaluate, at a
\* cost that is not zero.
C12_Witness ==
  /\ call.op = "evaluate"
  /\ Len(evaluation.lossHistory) = 3
  /\ result.kind = "cost"
  /\ result.value > 0
  /\ evaluation.lossHistory[2] = result.value

(***************************************************************************)
(* C13.  preFormat with a target width above 0 terminates: the loop runs   *)
(* the distance and shift pass again at most maxIterations times, a pass   *)
(* that narrows the layout may be any of these, and a pass that widens it  *)
(* is taken only while more than one pass remains.                         *)
(***************************************************************************)
\* The passes of the loop taken so far in the call.
LoopPasses == frame.passes - 1

\* The step is a pass of the loop.
LoopPass == frame.active /\ frame'.passes = frame.passes + 1

C13_LoopWithinBudget ==
  /\ [](Justifying => /\ LoopPasses <= maxIterations
                       /\ frame.iterations = maxIterations - LoopPasses)
  /\ [][(LoopPass /\ frame.actualWidth > frame.maxX) => frame.iterations >= 1]_vars
  /\ [][(LoopPass /\ ~(frame.actualWidth > frame.maxX)) => frame.iterations > 1]_vars
  /\ (frame.active ~> ~frame.active)

\* A call has ended after as many passes as maxIterations allows, the last
\* of them one that narrowed a layout that was too wide.
C13_Witness ==
  /\ Justifying
  /\ Idle
  /\ maxIterations = MaxIterationsOption
  /\ LoopPasses = maxIterations
  /\ frame.iterations = 0

\* A call has ended with one pass left, on a layout that is narrower than
\* the target width allows.
C13_WideningHeldBack ==
  /\ Justifying
  /\ Idle
  /\ frame.iterations = 1
  /\ frame.actualWidth + frame.paddingMax < frame.maxX

(***************************************************************************)
(* C14.  A format or formatToStave call that returns has run postFormat,   *)
(* on every modifier context and every tick context, exactly when a stave  *)
(* was supplied to the call, and postFormat has come after preFormat.      *)
(***************************************************************************)
\* A format or formatToStave call has returned.
FormattingReturned ==
  /\ call.op \in {"format", "formatToStave"}
  /\ Idle
  /\ Succeeded

AllPostFormatted ==
  /\ \A t \in DOMAIN tickContexts.map : tickContexts.map[t].postFormatted
  /\ \A g \in DOMAIN modifierContexts :
       \A i \in DOMAIN modifierContexts[g].array :
         modifierContexts[g].array[i].postFormatted

C14_PostFormatWhenStave ==
  FormattingReturned =>
    IF call.stave # "none"
    THEN history.order = <<"preFormat", "postFormat">> /\ AllPostFormatted
    ELSE history.order = <<"preFormat">>

\* The same of the calls made through format only.
C14_FormatPostFormatWhenStave ==
  (FormattingReturned /\ call.op = "format") =>
    IF call.stave # "none"
    THEN history.order = <<"preFormat", "postFormat">> /\ AllPostFormatted
    ELSE history.order = <<"preFormat">>

\* format has returned from a call with a stave, after a loop of passes,
\* on a Formatter that holds modifier contexts.
C14_FormatWithStave ==
  /\ FormattingReturned
  /\ call.op = "format"
  /\ call.stave # "none"
  /\ frame.passes > 1
  /\ modifierContexts # <<>>
  /\ history.order = <<"preFormat", "postFormat">>

\* formatToStave has returned without postFormat.
C14_FormatToStaveWithoutPostFormat ==
  /\ FormattingReturned
  /\ call.op = "formatToStave"
  /\ history.order = <<"preFormat">>
  /\ ~AllPostFormatted

(***************************************************************************)
(* C15.  SimpleFormat places the notes left to right, every note at a      *)
(* greater x than the note before it.  When no note has modifiers to its   *)
(* left or right, the first note is at x and every later note at the x of  *)
(* the note before it plus that note's width plus paddingBetween, which is *)
(* 10 px when the options give none.                                       *)
(***************************************************************************)
\* The notes SimpleFormat was given, and where it has put them.
SimpleNotes == notesOfVoice(call.voices[1])

SimpleX == attached[call.voices[1]].x

NoModifierExtent(notes) ==
  \A k \in DOMAIN notes : modLeftPxOf(notes[k]) = 0 /\ modRightPxOf(notes[k]) = 0

\* paddingBetween as the caller gave it, 10 px when it gave none.
GivenPadding == IF call.options = <<>> THEN Px(10) ELSE call.options[1]

ColumnOf(i) ==
  lineMetrics[CHOOSE k \in DOMAIN lineMetrics :
                lineMetrics[k].line = accidentals[i].line].column

\* The width and spacing of accidental i.
SpaceOf(i) == accidentalWidth(accidentals[i].type) + Px(AccidentalSpacing)

RECURSIVE SpaceOfAll(_)
SpaceOfAll(S) ==
  IF S = {} THEN 0
  ELSE LET i == CHOOSE j \in S : TRUE IN SpaceOf(i) + SpaceOfAll(S \ {i})

\* The accidentals on the line of accidental i.
OnLineOf(i) == {j \in DOMAIN accidentals : accidentals[j].line = accidentals[i].line}

\* The width of column c: that of the widest line in it.
WidestIn(c) ==
  MaxOf({SpaceOfAll(OnLineOf(i)) : i \in {j \in DOMAIN accidentals : ColumnOf(j) = c}})

\* The offset of column c: where the accidentals start, and the columns
\* before c.
RECURSIVE OffsetOf(_)
OffsetOf(c) ==
  IF c = 1
  THEN state.before + Px(NoteheadAccidentalPadding)
         + MaxOf({0} \cup {accidentals[j].extra : j \in DOMAIN accidentals})
  ELSE OffsetOf(c - 1) + WidestIn(c - 1)

C16_PairInLaterColumn ==
  /\ accidentalsFormatted
  /\ Len(accidentals) > 2
  /\ accidentals[1].line = accidentals[2].line
  /\ ColumnOf(1) = 2
  /\ accidentals[2].xShift = accidentals[1].xShift + SpaceOf(1)

(***************************************************************************)
(* C17.  After applyAccidentals, a key of a note that is no rest carries   *)
(* an Accidental of its written type (natural when none is written)        *)
(* exactly when that type differs from the state of its root and octave -  *)
(* the pitch of the key signature, C when none is given, or of the last    *)
(* accidental attached before to a key of the same root and octave - or    *)
(* when an identical key was given an accidental before at the same tick.  *)
(* Keys of another octave have no part in the state.                       *)
(***************************************************************************)
WrittenPitch(p) == <<score.order[p].key.root, accidentalStringOf(score.order[p].key)>>

AttachedBefore(p) ==
  {q \in 1..(p - 1) :
     /\ score.order[q].added
     /\ score.order[q].key.root = score.order[p].key.root
     /\ score.order[q].key.octave = score.order[p].key.octave}

StateBefore(p) ==
  IF AttachedBefore(p) = {}
  THEN <<score.order[p].key.root,
         IF score.keySignature = "G" /\ score.order[p].key.root = "f" THEN "#" ELSE "n">>
  ELSE WrittenPitch(CHOOSE q \in AttachedBefore(p) : \A r \in AttachedBefore(p) : r <= q)

ModifiedAtTick(p) ==
  \E q \in 1..(p - 1) :
    /\ score.order[q].added
    /\ score.order[q].tick = score.order[p].tick
    /\ score.order[q].key = score.order[p].key

Carries(p) ==
  \E m \in DOMAIN score.voices[score.order[p].voice][score.order[p].index].modifiers :
    score.voices[score.order[p].voice][score.order[p].index].modifiers[m] =
      [type |-> accidentalStringOf(score.order[p].key), index |-> score.order[p].keyIndex]

KeysOfNotes ==
  {<<v, k, i>> \in (1..2) \X (1..MaxNotes) \X (1..2) :
     /\ k <= Len(score.voices[v])
     /\ ~score.voices[v][k].rest
     /\ i <= Len(score.voices[v][k].keys)}

AscendingTicks ==
  \A p, q \in DOMAIN score.order : p < q => score.order[p].tick <= score.order[q].tick

SameTickTogether ==
  \A p, q, r \in DOMAIN score.order :
    (p < q /\ q < r /\ score.order[p].tick = score.order[r].tick) =>
      score.order[q].tick = score.order[p].tick

C18_AscendingTickOrder == score.applied >= 1 => (AscendingTicks /\ SameTickTogether)

\* Notes of two voices at the same tick are gone through together.
C18_SameTickAsOneGroup == score.applied >= 1 => SameTickTogether

\* A note of the second voice that starts before a note of the first is
\* gone through after it.
C18_LaterNoteFirst ==
  /\ score.applied >= 1
  /\ \E p, q \in DOMAIN score.order :
       /\ p < q
       /\ score.order[p].voice = 1 /\ score.order[q].voice = 2
       /\ score.order[q].tick < score.order[p].tick

(***************************************************************************)
(* C19.  After createTickContexts every tick context holds, as tContexts,  *)
(* the one array of the collection; the array holds every context created  *)
(* exactly once, and it is in ascending order of tick, whatever the         *)
(* rhythms of the voices.                                                  *)
(***************************************************************************)
ContextsCreated ==
  /\ call.op = "createTickContexts"
  /\ result.err = "none"
  /\ Len(call.voices) > 0

SameSiblings ==
  \A t \in DOMAIN tickContexts.map : tickContexts.map[t].tContexts = tickContexts.array

EveryContextOnce ==
  /\ Range(tickContexts.array) = DOMAIN tickContexts.map
  /\ \A i, j \in DOMAIN tickContexts.array :
       tickContexts.array[i] = tickContexts.array[j] => i = j

SiblingsAscending ==
  \A t \in DOMAIN tickContexts.map :
    \A i, j \in DOMAIN tickContexts.map[t].tContexts :
      i < j => tickContexts.map[t].tContexts[i] < tickContexts.map[t].tContexts[j]

C19_SiblingsAscendingByTick ==
  ContextsCreated => (SameSiblings /\ EveryContextOnce /\ SiblingsAscending)

\* Every context holds the one array, which holds every context once.
C19_SiblingsShared == ContextsCreated => (SameSiblings /\ EveryContextOnce)

\* Two voices of different rhythms: the context of a tick of the second
\* voice comes after the context of a later tick of the first.
C19_LaterTickFirst ==
  /\ ContextsCreated
  /\ Len(call.voices) = 2
  /\ SameSiblings
  /\ \E i, j \in DOMAIN tickContexts.array :
       i < j /\ tickContexts.array[j] < tickContexts.array[i]

(***************************************************************************)
(* C20.  checkCollision gives the same answer for two lines in either      *)
(* order: true exactly when the lines are less far apart than the          *)
(* clearance required, 3 lines, 2.5 when the higher line holds only flats  *)
(* or only double sharps, and half a line less when the lower line holds   *)
(* only double sharps.  Lines and clearances are counted in half lines.    *)
(***************************************************************************)
ClearanceRequired(higher, lower) ==
  (IF higher.flatLine \/ higher.dblSharpLine THEN 5 ELSE 6)
    - (IF lower.dblSharpLine THEN 1 ELSE 0)

CollideByClearance(a, b) ==
  IF a.line >= b.line THEN Abs(a.line - b.line) < ClearanceRequired(a, b)
  ELSE Abs(a.line - b.line) < ClearanceRequired(b, a)

C20_CheckCollisionSymmetric ==
  accidentalsFormatted =>
    \A i, j \in DOMAIN lineMetrics :
      /\ checkCollision(lineMetrics[i], lineMetrics[j])
           = checkCollision(lineMetrics[j], lineMetrics[i])
      /\ checkCollision(lineMetrics[i], lineMetrics[j])
           <=> CollideByClearance(lineMetrics[i], lineMetrics[j])

\* Given the higher line first, as format gives them, checkCollision
\* answers by the clearance required.
C20_HigherFirstByClearance ==
  accidentalsFormatted =>
    \A i, j \in DOMAIN lineMetrics :
      lineMetrics[i].line >= lineMetrics[j].line =>
        (checkCollision(lineMetrics[i], lineMetrics[j])
           <=> CollideByClearance(lineMetrics[i], lineMetrics[j]))

\* A line of double sharps three lines below a line of sharps: no
\* collision with the higher line first, a collision with the lower first.
C20_OrderMatters ==
  /\ accidentalsFormatted
  /\ \E i, j \in DOMAIN lineMetrics :
       /\ lineMetrics[i].line = lineMetrics[j].line + 6
       /\ lineMetrics[j].dblSharpLine
       /\ ~lineMetrics[i].flatLine /\ ~lineMetrics[i].dblSharpLine
       /\ ~checkCollision(lineMetrics[i], lineMetrics[j])
       /\ checkCollision(lineMetrics[j], lineMetrics[i])

(***************************************************************************)
(* C21.  A conflict group is a longest run of lines of which each collides *)
(* with the next.  In a group of seven lines or more the line at position  *)
(* k (from 0) has column (k mod p) + 1, p being the smallest number from 2 *)
(* on such that no two lines of the group that are p places apart          *)
(* collide; the lines outside the group have no part in p.                 *)
(***************************************************************************)
CollidesWithNext(k) ==
  k + 1 <= Len(lineMetrics) /\ checkCollision(lineMetrics[k], lineMetrics[k + 1])

GroupStartOf(k) ==
  CHOOSE s \in 1..k :
    /\ \A h \in s..(k - 1) : CollidesWithNext(h)
    /\ s > 1 => ~CollidesWithNext(s - 1)

GroupEndOf(k) ==
  CHOOSE e \in k..Len(lineMetrics) :
    /\ \A h \in k..(e - 1) : CollidesWithNext(h)
    /\ ~CollidesWithNext(e)

ApartIn(first, last, p) ==
  \A a \in first..(last - p) : ~checkCollision(lineMetrics[a], lineMetrics[a + p])

PeriodOf(first, last) ==
  CHOOSE p \in 2..(last - first + 2) :
    /\ ApartIn(first, last, p)
    /\ \A q \in 2..(p - 1) : ~ApartIn(first, last, q)

InLongGroup(k) == GroupEndOf(k) - GroupStartOf(k) + 1 >= 7

C21_PeriodOfTheGroup ==
  accidentalsFormatted =>
    \A k \in DOMAIN lineMetrics :
      InLongGroup(k) =>
        lineMetrics[k].column =
          ((k - GroupStartOf(k)) % PeriodOf(GroupStartOf(k), GroupEndOf(k))) + 1

\* The same with the period found over all the lines of the chord.
C21_PeriodOfAllLines ==
  accidentalsFormatted =>
    \A k \in DOMAIN lineMetrics :
      InLongGroup(k) =>
        lineMetrics[k].column =
          ((k - GroupStartOf(k)) % PeriodOf(1, Len(lineMetrics))) + 1

\* A group of seven lines two places apart in which no lines collide, and
\* three lines outside it of which the first and the third collide: the
\* group is laid out in three columns.
C21_OutsideLinesRaisePeriod ==
  /\ accidentalsFormatted
  /\ \E k \in DOMAIN lineMetrics :
       /\ InLongGroup(k)
       /\ PeriodOf(GroupStartOf(k), GroupEndOf(k)) = 2
       /\ PeriodOf(1, Len(lineMetrics)) = 3
       /\ k = GroupStartOf(k) + 2
       /\ lineMetrics[k].column = 3

(***************************************************************************)
(* C22.  Accidental.format of no accidentals leaves the state as it was.   *)
(* Otherwise the left shift of the state becomes what it was, plus the     *)
(* padding between note head and accidental, plus the width of the widest  *)
(* line of every column in use, plus the left padding: it never becomes    *)
(* less.                                                                   *)
(***************************************************************************)
ColumnsInUse == {ColumnOf(i) : i \in DOMAIN accidentals}

RECURSIVE WidestInAll(_)
WidestInAll(S) ==
  IF S = {} THEN 0
  ELSE LET c == CHOOSE d \in S : TRUE IN WidestIn(c) + WidestInAll(S \ {c})

C22_LeftShiftGrowsByColumns ==
  accidentalsFormatted =>
    /\ accidentals = <<>> => state.leftShift = state.before
    /\ accidentals # <<>> =>
         state.leftShift = state.before + Px(NoteheadAccidentalPadding)
                             + WidestInAll(ColumnsInUse) + Px(AccidentalLeftPadding)
    /\ state.leftShift >= state.before

\* A chord laid out in two columns in a modifier context whose left shift
\* was not 0.
C22_Witness ==
  /\ accidentalsFormatted
  /\ ColumnsInUse = {1, 2}
  /\ state.before = Px(6)
  /\ state.leftShift > state.before + WidestIn(1) + WidestIn(2)

(***************************************************************************)
(* C23.  After Accidental.format the left shift of the state is at least   *)
(* the x shift plus the width of every accidental placed, also when the    *)
(* note heads displaced to the left take extra space.                      *)
(***************************************************************************)
Covered(i) == state.leftShift >= accidentals[i].xShift + accidentalWidth(accidentals[i].type)

C23_LeftShiftCoversAccidentals ==
  accidentalsFormatted => \A i \in DOMAIN accidentals : Covered(i)

\* Without a note head displaced to the left the accidentals are covered.
C23_CoversWithoutDisplacedHead ==
  (accidentalsFormatted /\ \A i \in DOMAIN accidentals : accidentals[i].extra = 0)
    => \A i \in DOMAIN accidentals : Covered(i)

\* One sharp of a note whose head is displaced by 12 px reaches further
\* left than the left shift of the state.
C23_DisplacedHeadUncovered ==
  /\ accidentalsFormatted
  /\ Len(accidentals) = 1
  /\ accidentals[1].extra = Px(12)
  /\ ~Covered(1)

(***************************************************************************)
(* C24.  In a step of tune every tick context is shifted by at most alpha  *)
(* times the freedom it has in the direction of the shift, as the          *)
(* evaluate before left it; the first context is not moved; and the cost   *)
(* returned is that of an evaluate of the contexts as tune leaves them.    *)
(***************************************************************************)
TuneStep == call'.op = "tune" /\ calls' = calls + 1

ShiftApplied(k) == contextAt(tickContexts', k).x - contextAt(tickContexts, k).x

WithinFreedom(k) ==
  /\ ShiftApplied(k) < 0 =>
       call'.alpha[2] * (-ShiftApplied(k))
         <= call'.alpha[1] * contextAt(tickContexts, k).freedom.left
  /\ ShiftApplied(k) > 0 =>
       call'.alpha[2] * ShiftApplied(k)
         <= call'.alpha[1] * contextAt(tickContexts, k).freedom.right

\* The same with the freedom to the left as the move of the context before
\* has left it.
WithinFreedomLeft(k) ==
  /\ ShiftApplied(k) < 0 =>
       call'.alpha[2] * (-ShiftApplied(k))
         <= call'.alpha[1] * (contextAt(tickContexts, k).freedom.left - ShiftApplied(k - 1))
  /\ ShiftApplied(k) > 0 =>
       call'.alpha[2] * ShiftApplied(k)
         <= call'.alpha[1] * contextAt(tickContexts, k).freedom.right

FirstNotMoved == Len(tickContexts.list) > 0 => ShiftApplied(1) = 0

CostOfFreshEvaluate ==
  result' = evaluate(evaluation', tickContexts', voices', justifyWidth', attached').result

C24_TuneWithinFreedom ==
  [][TuneStep =>
       /\ \A k \in 1..Len(tickContexts.list) : WithinFreedom(k)
       /\ FirstNotMoved
       /\ CostOfFreshEvaluate]_vars

\* The same with the freedom to the left as the moves before have left it.
C24_TuneWithinFreedomLeft ==
  [][TuneStep =>
       /\ \A k \in 2..Len(tickContexts.list) : WithinFreedomLeft(k)
       /\ FirstNotMoved
       /\ CostOfFreshEvaluate]_vars

\* The first context stays, and the cost is that of a fresh evaluate.
C24_FirstStaysCostFresh ==
  [][TuneStep => (FirstNotMoved /\ CostOfFreshEvaluate)]_vars

\* tune has moved a context.
C24_Moved ==
  /\ call.op = "tune"
  /\ result.err = "none"
  /\ evaluation.totalShift # 0


(***************************************************************************)
(* C25: whenever the Formatter holds tick contexts, a run of evaluate, in  *)
(* preFormat, format or tune, accounts for exactly the tickables in those  *)
(* contexts: it sets their space and sums their squared deviations.        *)
(***************************************************************************)
\* The tickables in the tick contexts of the Formatter.
TickablesHeld(contexts) ==
  UNION {Range(contexts.map[tick].tickables) : tick \in DOMAIN contexts.map}

\* A step in which a call ends with a full run of evaluate.
EvaluateRan ==
  /\ result'.err = "none"
  /\ result' # Running
  /\ calls' = calls + 1 \/ result = Running
  /\ call'.op \in {"preFormat", "format", "tune"}
  /\ evaluation'.lossHistory # <<>>

\* The tick contexts were built by format, whose voices the Formatter keeps.
BuiltByFormat == TickablesHeld(tickContexts') = Range(notesFrom(voices', attached', 1))

C25_EvaluateAccountsHeld ==
  [][EvaluateRan /\ tickContexts'.list # <<>>
       => evaluation'.accounted = TickablesHeld(tickContexts')]_vars

\* C25, for the contexts of the voices of the most recent format: evaluate
\* accounts for exactly the tickables in them.
C25_EvaluateAccountsFormatted ==
  [][EvaluateRan /\ tickContexts'.list # <<>> /\ BuiltByFormat
       => /\ evaluation'.accounted = TickablesHeld(tickContexts')
          /\ \A ref \in TickablesHeld(tickContexts') : ref \in DOMAIN evaluation'.metrics]_vars

\* preFormat has run evaluate on contexts that createTickContexts built, on
\* a Formatter that format never ran on: no tickable is accounted for.
C25_BuiltWithoutFormat ==
  /\ call.op = "preFormat"
  /\ result.err = "none"
  /\ result.kind = "cost"
  /\ voices = <<>>
  /\ TickablesHeld(tickContexts) # {}
  /\ evaluation.accounted = {}


(***************************************************************************)
(* C26: preCalculateMinTotalWidth caches its result: two successive calls  *)
(* with the same voices return the same estimated width, the minimum width *)
(* plus the padding.                                                       *)
(***************************************************************************)
\* Two calls of preCalculateMinTotalWidth in a row, with the same voices,
\* the first of which has returned a width.
CalledTwice ==
  /\ call.op = "preCalculateMinTotalWidth"
  /\ call'.op = "preCalculateMinTotalWidth"
  /\ calls' = calls + 1
  /\ call'.voices = call.voices
  /\ result.err = "none"
  /\ result.kind = "number"

C26_SuccessiveCallsSameWidth ==
  [][CalledTwice => result' = result]_vars

\* C26, as the code caches: the second of two successive calls returns the
\* minimum width the first has stored, without the padding.
C26_SecondCallReturnsMinimumWidth ==
  [][CalledTwice => /\ result' = Returned("number", minTotalWidth)
                    /\ result'.value <= result.value
                    /\ UNCHANGED <<minTotalWidth, hasMinTotalWidth, tickContexts>>]_vars

\* C26, after format or preFormat: the call returns the minimum width that
\* preFormat has stored, as getMinTotalWidth does.
C26_AfterPreFormatReturnsStored ==
  [][/\ call.op \in {"preFormat", "format"}
     /\ hasMinTotalWidth
     /\ call'.op = "preCalculateMinTotalWidth"
     /\ calls' = calls + 1
     => result' = Returned("number", minTotalWidth)]_vars

\* A first call has returned a width with padding.
C26_Padded ==
  /\ call.op = "preCalculateMinTotalWidth"
  /\ result.kind = "number"
  /\ result.value > minTotalWidth


(***************************************************************************)
(* C27: after preFormat without a justification width (justifyWidth <= 0), *)
(* the x of every tick context is the sum of the widths of the contexts    *)
(* before it in tick order plus its own total left px, and minTotalWidth   *)
(* is the sum of the widths of all tick contexts.                          *)
(***************************************************************************)
\* A preFormat call, of its own or inside format, has returned without
\* justification.
PreFormattedUnjustified ==
  /\ call.op \in {"preFormat", "format"}
  /\ call.justifyWidth <= 0
  /\ result.err = "none"

\* The sum of the widths of the contexts before context k in tick order.
WidthsBefore(k) ==
  sumArray([j \in 1..(k - 1) |-> contextAt(tickContexts, j).width])

C27_MinimumPositions ==
  PreFormattedUnjustified
    => /\ \A k \in DOMAIN tickContexts.list :
            contextAt(tickContexts, k).x
              = WidthsBefore(k) + contextAt(tickContexts, k).totalLeftPx
       /\ minTotalWidth = WidthsBefore(Len(tickContexts.list) + 1)
       /\ hasMinTotalWidth

C27_Witness ==
  /\ PreFormattedUnjustified
  /\ call.justifyWidth < 0
  /\ Len(tickContexts.list) >= 3
  /\ \A j, k \in DOMAIN tickContexts.list : j < k => tickContexts.list[j] < tickContexts.list[k]
  /\ \E k \in DOMAIN tickContexts.list :
       k > 1 /\ contextAt(tickContexts, k).totalLeftPx > 0 /\ contextAt(tickContexts, k).x > 0
  /\ minTotalWidth > 0


(***************************************************************************)
(* C28: after Stave.formatBegModifiers(staves), for each of clef, key      *)
(* signature and time signature the first begin modifier of the category   *)
(* has the same x on every stave that has one, whatever order the          *)
(* modifiers were added in, and every stave has the same getNoteStartX().  *)
(***************************************************************************)
\* The first begin modifier of a category on the staves that have one.
HasBegin(i, category) == getModifiers(allStaves[i], "BEGIN", category) # <<>>

FirstBeginX(i, category) ==
  allStaves[i].modifiers[getModifiers(allStaves[i], "BEGIN", category)[1]].x

BeginAligned(category) ==
  \A i, j \in DOMAIN allStaves :
    HasBegin(i, category) /\ HasBegin(j, category)
      => FirstBeginX(i, category) = FirstBeginX(j, category)

NoteStartAligned ==
  \A i, j \in DOMAIN allStaves : noteStartX(allStaves[i]) = noteStartX(allStaves[j])

\* The begin modifiers of stave i were added in the order of the categories.
AddedInCategoryOrder(i) ==
  \A j, k \in Range(getModifiers(allStaves[i], "BEGIN", "")) :
    j < k => SortOrderBegModifiers[allStaves[i].modifiers[j].category]
               <= SortOrderBegModifiers[allStaves[i].modifiers[k].category]

C28_BegModifiersAligned ==
  staveCall.op = "formatBegModifiers"
    => /\ \A category \in {"Clef", "KeySignature", "TimeSignature"} : BeginAligned(category)
       /\ NoteStartAligned

\* C28, for staves whose begin modifiers were added in the order bar line,
\* clef, key signature, time signature: the categories and the note start
\* are aligned.
C28_AlignedWhenAddedInOrder ==
  staveCall.op = "formatBegModifiers" /\ (\A i \in DOMAIN allStaves : AddedInCategoryOrder(i))
    => /\ \A category \in {"Clef", "KeySignature", "TimeSignature"} : BeginAligned(category)
       /\ NoteStartAligned

\* C28, the note start: every stave has the same getNoteStartX().
C28_NoteStartAligned ==
  staveCall.op = "formatBegModifiers" => NoteStartAligned /\ \A i \in DOMAIN allStaves : allStaves[i].formatted

\* formatBegModifiers has left the clefs of two staves at different x, on
\* staves one of which got its key signature before its clef.
C28_ClefsApart ==
  /\ staveCall.op = "formatBegModifiers"
  /\ Len(allStaves) = 2
  /\ HasBegin(1, "Clef") /\ HasBegin(2, "Clef")
  /\ FirstBeginX(1, "Clef") # FirstBeginX(2, "Clef")
  /\ \E i \in DOMAIN allStaves : ~AddedInCategoryOrder(i)


(***************************************************************************)
(* C29: after any sequence of setBegBarType and setEndBarType calls the    *)
(* begin bar line is SINGLE, REPEAT_BEGIN or NONE and the end bar line is  *)
(* never a repeat end, the type the code comment names as rejected at the  *)
(* end of a stave; a call with a rejected type leaves the bar line type    *)
(* and the formatted flag unchanged.                                       *)
(***************************************************************************)
BegBarTypes == {BarlineType.SINGLE, BarlineType.REPEAT_BEGIN, BarlineType.NONE}

\* The most recent call is setBegBarType with a type that is no begin type,
\* or setEndBarType with the type given.
RejectedCall(endType) ==
  \/ staveCall.op = "setBegBarType" /\ staveCall.arg \notin BegBarTypes
  \/ staveCall.op = "setEndBarType" /\ staveCall.arg = endType

\* The bar lines after a step, with endType the type rejected at the end.
BarTypesKept(endType) ==
  /\ \A i \in DOMAIN allStaves' :
       /\ allStaves'[i].modifiers[1].type \in BegBarTypes
       /\ allStaves'[i].modifiers[2].type # endType
  /\ RejectedCall(endType)' => allStaves' = allStaves

LineConfigKept(visibles) ==
  /\ \A i \in DOMAIN allStaves' :
       /\ Len(allStaves'[i].lineConfig) = allStaves'[i].numLines
       /\ \A k \in DOMAIN allStaves'[i].lineConfig :
            allStaves'[i].lineConfig[k].visible \in visibles
  /\ staveCall'.err = "StaveConfigError"
       => /\ staveCall'.op \in {"setConfigForLine", "setConfigForLines"}
          /\ allStaves' = allStaves

C30_LineConfigBoolean ==
  [][LineConfigKept({"true", "false"})]_vars

\* C30, with visible only known to be there: lineConfig has numLines
\* entries, each with a visible, and a call that raises changes nothing.
C30_LineConfigComplete ==
  [][LineConfigKept({"true", "false", "other"})]_vars

\* setConfigForLines has returned and left a visible that is no boolean.
C30_VisibleNoBoolean ==
  /\ staveCall.op = "setConfigForLines"
  /\ staveCall.err = "none"
  /\ \E k \in DOMAIN allStaves[1].lineConfig : allStaves[1].lineConfig[k].visible = "other"
  /\ Len(allStaves[1].lineConfig) = allStaves[1].numLines

====================================================================
